---- MODULE Spec2Model ----
(***************************************************************************)
(* A state-machine model of the Qiskit MCP server (src/main.py): the       *)
(* process-wide circuit registry and the tools that create, mutate, run,   *)
(* analyse and optimise the circuits it holds.                             *)
(*                                                                         *)
(* A tool call is one atomic step.  `circuits` and `order` are the Python  *)
(* dict `circuits`: the object each name is bound to and the insertion     *)
(* order of the names.  `heap` holds the circuit objects themselves, by    *)
(* reference, since gate addition mutates an object in place.  `ret` is    *)
(* what the last tool call handed back to its caller: a returned           *)
(* string/JSON (kind "ok", "not_found", "unsupported", "invalid_level",    *)
(* "error") or an exception that left the tool function (kind "fault").    *)
(* `calls` counts the tool calls made so far.                              *)
(*                                                                         *)
(* The code takes no lock.  Where the server runs its tool functions on    *)
(* several threads, the statements of two calls interleave; `pending`      *)
(* holds the calls in flight with their position and local variables, and  *)
(* ConcurrentSpec takes the calls statement by statement.                  *)
(***************************************************************************)
EXTENDS Integers, Sequences, FiniteSets, TLC

VARIABLES circuits, order, heap, ret, calls, pending

vars == <<circuits, order, heap, ret, calls, pending>>

(***************************************************************************)
(* Bounds of the model.                                                    *)
(***************************************************************************)
\* How many tool calls a behaviour makes when every tool may be called (Spec).
MaxCalls == 2
\* How many calls a behaviour makes of the tools that name circuits (NamingSpec).
MaxNamingCalls == 3
\* How many calls a behaviour makes of the tools that build and read one circuit
\* (GatesSpec).
MaxGateCalls == 3
\* How many calls a behaviour makes when calls overlap (ConcurrentSpec).
MaxConcurrentCalls == 3
\* How many calls a behaviour makes of the tools that copy and extend a circuit
\* (SharingSpec).
MaxSharingCalls == 3

(***************************************************************************)
(* Inputs the tools are called with.  An optional argument (default None)  *)
(* is a sequence of length 0 (None) or 1 (the value).                      *)
(***************************************************************************)
None == <<>>

Some(v) == <<v>>

QubitChoices == {-1, 2}

ClbitChoices == {None, Some(1)}

NameChoices == {None, Some("a"), Some("a_1")}

LookupChoices == {"nope"}

LayerChoices == {1}

EntanglementChoices == {"full", "linear", "circular", "reverse_linear", "star"}

\* run_circuit's default shot count
DefaultShots == 1000

ShotChoices == {2, DefaultShots}

LevelChoices == {0, 1, 2, 3, 4}

\* values of str(uuid.uuid4())[:8]
Uuid8 == {"0a0a0a0a", "1b1b1b1b"}

\* values of int(time.time() * 1000)
Clock == {1, 2}

(***************************************************************************)
(* The registry: a Python dict, insertion-ordered.                         *)
(***************************************************************************)
EmptyDict == [n \in {} |-> 0]

Keys(d) == DOMAIN d

\* circuits[name] = circuit
SetItem(d, name, circuit) ==
    [n \in (DOMAIN d) \cup {name} |-> IF n = name THEN circuit ELSE d[n]]

\* the position of a key is that of its first insertion
SetItemOrder(d, o, name) == IF name \in DOMAIN d THEN o ELSE Append(o, name)

(***************************************************************************)
(* The delegate's circuit object (qiskit.QuantumCircuit) as far as the     *)
(* tools read and write it: the qubit count, the classical registers (the  *)
(* size of each, in the order they were added) and the instruction list    *)
(* circuit.data.  An instruction is                                        *)
(*   [name, qubits, clbits, params, free]                                  *)
(* with the bit indices find_bit() reports, the bound parameters (angles,  *)
(* as multiples of pi/2) and the number of unbound parameters.             *)
(***************************************************************************)
RECURSIVE SumSeq(_)
SumSeq(s) == IF s = <<>> THEN 0 ELSE s[1] + SumSeq(Tail(s))

\* QuantumCircuit(num_qubits, num_classical_bits): a register of size 0 is not added
QuantumCircuit(num_qubits, num_classical_bits) ==
    [num_qubits |-> num_qubits,
     cregs      |-> IF num_classical_bits = 0 THEN <<>> ELSE <<num_classical_bits>>,
     data       |-> <<>>]

\* QuantumCircuit(...) raises CircuitError for a negative register size
ConstructorRaises(num_qubits, num_classical_bits) ==
    num_qubits < 0 \/ num_classical_bits < 0

\* circuit.num_clbits
NumClbits(circuit) == SumSeq(circuit.cregs)

Instruction(name, qubits, clbits, params) ==
    [name |-> name, qubits |-> qubits, clbits |-> clbits, params |-> params, free |-> 0]

\* An int bit specifier indexes the bit list as a Python list does: -n..n-1.
BitOk(index, n) == -n <= index /\ index < n

BitIndex(index, n) == IF index < 0 THEN index + n ELSE index

Raised(circuit, exc) == [raised |-> TRUE, circuit |-> circuit, exc |-> exc]

Returned(circuit) == [raised |-> FALSE, circuit |-> circuit, exc |-> ""]

\* circuit.h(q), circuit.cx(c, t), circuit.rx(angle, q), ...: one instruction is
\* appended, or CircuitError is raised (bit out of range, duplicate qubits) and the
\* circuit is left as it was.
AppendGate(circuit, name, qargs, params) ==
    IF \E i \in 1..Len(qargs) : ~BitOk(qargs[i], circuit.num_qubits)
      THEN Raised(circuit, "CircuitError")
    ELSE LET qs == [i \in 1..Len(qargs) |-> BitIndex(qargs[i], circuit.num_qubits)]
         IN IF \E i, j \in 1..Len(qs) : i < j /\ qs[i] = qs[j]
              THEN Raised(circuit, "CircuitError")
              ELSE Returned([circuit EXCEPT
                       !.data = Append(@, Instruction(name, qs, <<>>, params))])

\* circuit.measure(qubit, cbit)
Measure(circuit, qubit, cbit) ==
    IF ~BitOk(qubit, circuit.num_qubits) \/ ~BitOk(cbit, NumClbits(circuit))
      THEN Raised(circuit, "CircuitError")
      ELSE Returned([circuit EXCEPT
               !.data = Append(@, Instruction("measure",
                                   <<BitIndex(qubit, circuit.num_qubits)>>,
                                   <<BitIndex(cbit, NumClbits(circuit))>>, <<>>))])

\* The measurements measure_all() appends: qubit q onto bit q of the new register.
MeasureEach(num_qubits, first_clbit) ==
    [q \in 1..num_qubits |->
        Instruction("measure", <<q - 1>>, <<first_clbit + q - 1>>, <<>>)]

\* A measure_all() that appends the measurements without the barrier before them.
MeasureAllNoBarrier(circuit) ==
    LET n == circuit.num_qubits
    IN Returned([circuit EXCEPT
           !.cregs = Append(@, n),
           !.data  = @ \o MeasureEach(n, NumClbits(circuit))])

\* circuit.measure_all(): add_bits defaults to True, so a new classical register
\* "meas" of num_qubits bits is added; then a barrier over all qubits and one
\* measurement per qubit are appended.
MeasureAll(circuit) ==
    LET n == circuit.num_qubits
        barrier == Instruction("barrier", [q \in 1..n |-> q - 1], <<>>, <<>>)
    IN Returned([circuit EXCEPT
           !.cregs = Append(@, n),
           !.data  = (@ \o <<barrier>>) \o MeasureEach(n, NumClbits(circuit))])

\* circuit.size(): the instructions that are not directives (a barrier is one)
RECURSIVE Size(_)
Size(data) ==
    IF data = <<>> THEN 0
    ELSE (IF data[1].name = "barrier" THEN 0 ELSE 1) + Size(Tail(data))

(***************************************************************************)
(* Objects.  A name of the registry is bound to a reference; an object no  *)
(* name refers to any more is collected.                                   *)
(***************************************************************************)
Refs(d) == {d[n] : n \in DOMAIN d}

\* the reference a newly constructed object gets
NewRef(h) == CHOOSE r \in 0..Cardinality(DOMAIN h) : r \notin DOMAIN h

Alloc(h, ref, object) ==
    [r \in (DOMAIN h) \cup {ref} |-> IF r = ref THEN object ELSE h[r]]

Collect(h, d) == [r \in Refs(d) |-> h[r]]

\* the object a registered name refers to
Circuit(name) == heap[circuits[name]]

(***************************************************************************)
(* What a tool hands back.                                                 *)
(***************************************************************************)
Ret(tool, kind, name, out) == [tool |-> tool, kind |-> kind, name |-> name, out |-> out]

\* f"Circuit '{circuit_name}' not found"
NotFound(tool, circuit_name) == Ret(tool, "not_found", circuit_name, [message |-> "not found"])

\* an exception that propagates out of the tool function: nothing is returned
Fault(tool, exc) == Ret(tool, "fault", "", [exception |-> exc])

\* a caught exception, returned as f"Error ... '{circuit_name}': {str(e)}"; `name` is
\* the circuit name the message carries ("" when it carries none)
Error(tool, name, exc) == Ret(tool, "error", name, [cause |-> exc])

(***************************************************************************)
(* A gate of a batch is the dict                                           *)
(*   {type, qubits, classical_bit, params}                                 *)
(* with an absent key read through dict.get's default.                     *)
(***************************************************************************)
Gate(type, qubits, classical_bit, params) ==
    [type |-> type, qubits |-> qubits, classical_bit |-> classical_bit, params |-> params]

\* str.lower() on the gate kinds of the model
Lower(s) ==
    CASE s = "H" -> "h"
      [] s = "Foo" -> "foo"
      [] s = "RX" -> "rx"
      [] OTHER -> s

\* str.upper() on the gate kinds of the model
Upper(s) ==
    CASE s = "h" -> "H" [] s = "x" -> "X" [] s = "y" -> "Y" [] s = "z" -> "Z"
      [] s = "rx" -> "RX" [] s = "ry" -> "RY" [] s = "rz" -> "RZ"
      [] s = "rxx" -> "RXX" [] s = "ryy" -> "RYY" [] s = "rzz" -> "RZZ"
      [] s = "s" -> "S" [] s = "t" -> "T"
      [] OTHER -> s

Applied(circuit, text) ==
    [status |-> "applied", circuit |-> circuit, text |-> text, detail |-> ""]

Raise(circuit, exc) ==
    [status |-> "raise", circuit |-> circuit, text |-> "", detail |-> exc]

Unsupported(circuit, gate_type) ==
    [status |-> "unsupported", circuit |-> circuit, text |-> "", detail |-> gate_type]

\* the outcome of one delegate call made for a gate of a batch
Call(r, text) == IF r.raised THEN Raise(r.circuit, r.exc) ELSE Applied(r.circuit, text)

\* add_gates: the body of the loop for one gate
BasicGate(circuit, gate) ==
    LET gate_type == Lower(gate.type)
        qubits    == gate.qubits
    IN CASE gate_type \in {"h", "x", "y", "z"} ->
              IF Len(qubits) < 1 THEN Raise(circuit, "IndexError")
              ELSE Call(AppendGate(circuit, gate_type, <<qubits[1]>>, <<>>),
                        Upper(gate_type) \o " gate on qubit " \o ToString(qubits[1]))
         [] gate_type = "cx" ->
              IF Len(qubits) < 2 THEN Raise(circuit, "IndexError")
              ELSE Call(AppendGate(circuit, "cx", <<qubits[1], qubits[2]>>, <<>>),
                        "CNOT gate from qubit " \o ToString(qubits[1])
                            \o " to " \o ToString(qubits[2]))
         [] gate_type = "measure" ->
              IF Len(qubits) < 1 THEN Raise(circuit, "IndexError")
              ELSE Call(Measure(circuit, qubits[1],
                                IF gate.classical_bit = None THEN qubits[1]
                                ELSE gate.classical_bit[1]),
                        "Measure qubit " \o ToString(qubits[1]))
         [] gate_type = "measure_all" ->
              Call(MeasureAll(circuit), "Measure all qubits")
         [] OTHER -> Unsupported(circuit, gate_type)

\* A loop that passes over a gate of an unsupported kind (`continue` in place of
\* `return`) and goes on with the rest of the batch.
RECURSIVE AddGatesLoopSkipping(_, _, _, _)
AddGatesLoopSkipping(circuit, gates, i, applied_gates) ==
    IF i > Len(gates)
      THEN [outcome |-> "ok", circuit |-> circuit, applied |-> applied_gates, detail |-> ""]
    ELSE LET r == BasicGate(circuit, gates[i])
         IN IF r.status = "applied"
              THEN AddGatesLoopSkipping(r.circuit, gates, i + 1,
                                        Append(applied_gates, r.text))
            ELSE IF r.status = "unsupported"
              THEN AddGatesLoopSkipping(circuit, gates, i + 1, applied_gates)
              ELSE [outcome |-> r.status, circuit |-> r.circuit,
                    applied |-> applied_gates, detail |-> r.detail]

\* A loop that is transactional: when the delegate rejects a gate, the circuit is
\* given back as it was before the batch.
RECURSIVE AddGatesLoopRollingBack(_, _, _, _)
AddGatesLoopRollingBack(circuit, gates, i, applied_gates) ==
    IF i > Len(gates)
      THEN [outcome |-> "ok", circuit |-> circuit, applied |-> applied_gates, detail |-> ""]
    ELSE LET r == BasicGate(circuit, gates[i])
         IN IF r.status = "applied"
              THEN LET rest == AddGatesLoopRollingBack(r.circuit, gates, i + 1,
                                                       Append(applied_gates, r.text))
                   IN IF rest.outcome = "raise" THEN [rest EXCEPT !.circuit = circuit]
                      ELSE rest
              ELSE [outcome |-> r.status, circuit |-> circuit,
                    applied |-> applied_gates, detail |-> r.detail]

\* add_gates: `for gate in gates`, from the gate at position i (1-based) on
RECURSIVE AddGatesLoop(_, _, _, _)
AddGatesLoop(circuit, gates, i, applied_gates) ==
    IF i > Len(gates)
      THEN [outcome |-> "ok", circuit |-> circuit, applied |-> applied_gates, detail |-> ""]
    ELSE LET r == BasicGate(circuit, gates[i])
         IN IF r.status = "applied"
              THEN AddGatesLoop(r.circuit, gates, i + 1, Append(applied_gates, r.text))
              ELSE [outcome |-> r.status, circuit |-> r.circuit,
                    applied |-> applied_gates, detail |-> r.detail]

\* params[k] if len(params) > k else 0   (k is 0-based)
ParamOr0(params, k) == IF Len(params) > k THEN params[k + 1] ELSE 0

\* add_advanced_gates: the body of the loop for one gate
AdvancedGate(circuit, gate) ==
    LET gate_type == Lower(gate.type)
        qubits    == gate.qubits
        params    == gate.params
        angle     == ParamOr0(params, 0)
    IN CASE gate_type \in {"rx", "ry", "rz"} ->
              IF Len(qubits) < 1 THEN Raise(circuit, "IndexError")
              ELSE Call(AppendGate(circuit, gate_type, <<qubits[1]>>, <<angle>>),
                        Upper(gate_type) \o "(" \o ToString(angle) \o ") gate on qubit "
                            \o ToString(qubits[1]))
         [] gate_type \in {"rxx", "ryy", "rzz"} ->
              IF Len(qubits) < 2 THEN Raise(circuit, "IndexError")
              ELSE Call(AppendGate(circuit, gate_type, <<qubits[1], qubits[2]>>, <<angle>>),
                        Upper(gate_type) \o "(" \o ToString(angle) \o ") gate on qubits "
                            \o ToString(qubits[1]) \o ", " \o ToString(qubits[2]))
         [] gate_type = "u" ->
              LET theta == ParamOr0(params, 0)
                  phi   == ParamOr0(params, 1)
                  lam   == ParamOr0(params, 2)
              IN IF Len(qubits) < 1 THEN Raise(circuit, "IndexError")
                 ELSE Call(AppendGate(circuit, "u", <<qubits[1]>>, <<theta, phi, lam>>),
                           "U(" \o ToString(theta) \o ", " \o ToString(phi) \o ", "
                               \o ToString(lam) \o ") gate on qubit " \o ToString(qubits[1]))
         [] gate_type = "swap" ->
              IF Len(qubits) < 2 THEN Raise(circuit, "IndexError")
              ELSE Call(AppendGate(circuit, "swap", <<qubits[1], qubits[2]>>, <<>>),
                        "SWAP gate on qubits " \o ToString(qubits[1]) \o ", "
                            \o ToString(qubits[2]))
         [] gate_type \in {"s", "t"} ->
              IF Len(qubits) < 1 THEN Raise(circuit, "IndexError")
              ELSE Call(AppendGate(circuit, gate_type, <<qubits[1]>>, <<>>),
                        Upper(gate_type) \o " gate on qubit " \o ToString(qubits[1]))
         [] gate_type = "sdg" ->
              IF Len(qubits) < 1 THEN Raise(circuit, "IndexError")
              ELSE Call(AppendGate(circuit, "sdg", <<qubits[1]>>, <<>>),
                        "S+ gate on qubit " \o ToString(qubits[1]))
         [] gate_type = "tdg" ->
              IF Len(qubits) < 1 THEN Raise(circuit, "IndexError")
              ELSE Call(AppendGate(circuit, "tdg", <<qubits[1]>>, <<>>),
                        "T+ gate on qubit " \o ToString(qubits[1]))
         [] OTHER -> Unsupported(circuit, gate_type)

\* add_advanced_gates: `for gate in gates`, from the gate at position i (1-based) on
RECURSIVE AddAdvancedGatesLoop(_, _, _, _)
AddAdvancedGatesLoop(circuit, gates, i, applied_gates) ==
    IF i > Len(gates)
      THEN [outcome |-> "ok", circuit |-> circuit, applied |-> applied_gates, detail |-> ""]
    ELSE LET r == AdvancedGate(circuit, gates[i])
         IN IF r.status = "applied"
              THEN AddAdvancedGatesLoop(r.circuit, gates, i + 1,
                                        Append(applied_gates, r.text))
              ELSE [outcome |-> r.status, circuit |-> r.circuit,
                    applied |-> applied_gates, detail |-> r.detail]

(***************************************************************************)
(* The gate-addition tools.  The object the name refers to is mutated in   *)
(* place: what the loop appended before it stopped stays appended.         *)
(***************************************************************************)
add_gates(circuit_name, gates) ==
    IF circuit_name \notin Keys(circuits)
      THEN /\ ret' = NotFound("add_gates", circuit_name)
           /\ UNCHANGED <<circuits, order, heap>>
    ELSE LET r == AddGatesLoop(Circuit(circuit_name), gates, 1, <<>>)
         IN /\ heap' = [heap EXCEPT ![circuits[circuit_name]] = r.circuit]
            /\ ret' = CASE r.outcome = "ok" ->
                             Ret("add_gates", "ok", circuit_name, [applied |-> r.applied])
                        [] r.outcome = "unsupported" ->
                             Ret("add_gates", "unsupported", circuit_name,
                                 [gate_type |-> r.detail])
                        [] OTHER -> Fault("add_gates", r.detail)
            /\ UNCHANGED <<circuits, order>>

add_advanced_gates(circuit_name, gates) ==
    IF circuit_name \notin Keys(circuits)
      THEN /\ ret' = NotFound("add_advanced_gates", circuit_name)
           /\ UNCHANGED <<circuits, order, heap>>
    ELSE LET r == AddAdvancedGatesLoop(Circuit(circuit_name), gates, 1, <<>>)
         IN /\ heap' = [heap EXCEPT ![circuits[circuit_name]] = r.circuit]
            /\ ret' = CASE r.outcome = "ok" ->
                             Ret("add_advanced_gates", "ok", circuit_name,
                                 [applied |-> r.applied])
                        [] r.outcome = "unsupported" ->
                             Ret("add_advanced_gates", "unsupported", circuit_name,
                                 [gate_type |-> r.detail])
                        [] OTHER -> Error("add_advanced_gates", circuit_name, r.detail)
            /\ UNCHANGED <<circuits, order>>

(***************************************************************************)
(* Names.                                                                  *)
(***************************************************************************)
\* _generate_unique_circuit_name(): f"circuit_{timestamp}_{short_uuid}"
GenerateUniqueCircuitName(timestamp, short_uuid) ==
    ("circuit_" \o ToString(timestamp)) \o ("_" \o short_uuid)

\* A naming that tries the first suffix only (`if` in place of `while`): the loop
\* below must differ from it once a suffixed name is taken too.
SuffixOnce(original_name, name, counter, keys) ==
    IF name \in keys THEN (original_name \o "_") \o ToString(counter) ELSE name

\* while name in circuits: name = f"{original_name}_{counter}"; counter += 1
RECURSIVE SuffixLoop(_, _, _, _)
SuffixLoop(original_name, name, counter, keys) ==
    IF name \in keys
      THEN SuffixLoop(original_name, (original_name \o "_") \o ToString(counter),
                      counter + 1, keys)
      ELSE name

\* The tests of a loop that makes each membership test twice before it moves on.
RECURSIVE SuffixTestsRepeated(_, _, _, _)
SuffixTestsRepeated(original_name, name, counter, keys) ==
    <<[name |-> name, counter |-> counter], [name |-> name, counter |-> counter]>>
       \o (IF name \in keys
              THEN SuffixTestsRepeated(original_name,
                                       (original_name \o "_") \o ToString(counter),
                                       counter + 1, keys)
              ELSE <<>>)

\* The membership tests `name in circuits` the loop makes, in order: the name tested
\* and the value of counter at the test.
RECURSIVE SuffixTests(_, _, _, _)
SuffixTests(original_name, name, counter, keys) ==
    <<[name |-> name, counter |-> counter]>>
       \o (IF name \in keys
              THEN SuffixTests(original_name, (original_name \o "_") \o ToString(counter),
                               counter + 1, keys)
              ELSE <<>>)

\* the `else` branch of the naming: original_name = name; counter = 1; the loop
EnsureUnique(name, keys) == SuffixLoop(name, name, 1, keys)

\* A registry that binds the name to an object it already holds when that object
\* has the same content (an assignment without a copy), and to a new one otherwise.
RegisterShared(name, object) ==
    LET same == {r \in DOMAIN heap : heap[r] = object}
        ref  == IF same = {} THEN NewRef(heap) ELSE CHOOSE r \in same : TRUE
        d    == SetItem(circuits, name, ref)
    IN /\ circuits' = d
       /\ order' = SetItemOrder(circuits, order, name)
       /\ heap' = Collect(Alloc(heap, ref, object), d)

\* circuits[name] = <a newly constructed object>
Register(name, object) ==
    LET ref == NewRef(heap)
        d   == SetItem(circuits, name, ref)
    IN /\ circuits' = d
       /\ order' = SetItemOrder(circuits, order, name)
       /\ heap' = Collect(Alloc(heap, ref, object), d)

(***************************************************************************)
(* The creation tools.  timestamp and short_uuid are what time.time() and  *)
(* uuid.uuid4() give the call.                                             *)
(***************************************************************************)
create_quantum_circuit(num_qubits, num_classical_bits, name, timestamp, short_uuid) ==
    LET ncl == IF num_classical_bits = None THEN num_qubits ELSE num_classical_bits[1]
        resolved == IF name = None
                      THEN GenerateUniqueCircuitName(timestamp, short_uuid)
                      ELSE EnsureUnique(name[1], Keys(circuits))
    IN IF ConstructorRaises(num_qubits, ncl)
         THEN /\ ret' = Fault("create_quantum_circuit", "CircuitError")
              /\ UNCHANGED <<circuits, order, heap>>
         ELSE /\ Register(resolved, QuantumCircuit(num_qubits, ncl))
              /\ ret' = Ret("create_quantum_circuit", "ok", resolved,
                            [num_qubits |-> num_qubits, num_classical_bits |-> ncl])

\* an instruction with one unbound parameter (a rotation of the ansatz)
FreeRotation(name, q) ==
    [name |-> name, qubits |-> <<q>>, clbits |-> <<>>, params |-> <<>>, free |-> 1]

\* the ry layer, then the rz layer, over all qubits
RotationBlock(n) ==
    [q \in 1..n |-> FreeRotation("ry", q - 1)] \o [q \in 1..n |-> FreeRotation("rz", q - 1)]

\* all pairs i < j, in lexicographic order
RECURSIVE FullPairs(_, _, _)
FullPairs(n, i, j) ==
    IF i >= n - 1 THEN <<>>
    ELSE IF j >= n THEN FullPairs(n, i + 1, i + 2)
    ELSE <<Instruction("cx", <<i, j>>, <<>>, <<>>)>> \o FullPairs(n, i, j + 1)

LinearPairs(n) ==
    IF n < 2 THEN <<>> ELSE [k \in 1..(n - 1) |-> Instruction("cx", <<k - 1, k>>, <<>>, <<>>)]

ReverseLinearPairs(n) ==
    IF n < 2 THEN <<>>
    ELSE [k \in 1..(n - 1) |-> Instruction("cx", <<n - 1 - k, n - k>>, <<>>, <<>>)]

CircularPairs(n) ==
    IF n > 2 THEN <<Instruction("cx", <<n - 1, 0>>, <<>>, <<>>)>> \o LinearPairs(n)
    ELSE LinearPairs(n)

EntanglementBlock(n, entanglement) ==
    CASE entanglement = "full" -> FullPairs(n, 0, 1)
      [] entanglement = "linear" -> LinearPairs(n)
      [] entanglement = "reverse_linear" -> ReverseLinearPairs(n)
      [] OTHER -> CircularPairs(n)

RECURSIVE Layers(_, _, _)
Layers(n, reps, entanglement) ==
    IF reps = 0 THEN RotationBlock(n)
    ELSE (RotationBlock(n) \o EntanglementBlock(n, entanglement))
             \o Layers(n, reps - 1, entanglement)

\* efficient_su2(num_qubits, reps, entanglement): the delegate's ansatz builder. It
\* knows the entanglement names below and raises for any other.
EfficientSU2(num_qubits, reps, entanglement) ==
    IF num_qubits < 1 \/ reps < 0
         \/ entanglement \notin {"full", "linear", "reverse_linear", "circular"}
      THEN Raised(QuantumCircuit(0, 0), "ValueError")
      ELSE Returned([num_qubits |-> num_qubits, cregs |-> <<>>,
                     data |-> Layers(num_qubits, reps, entanglement)])

\* ansatz.num_parameters
RECURSIVE NumParameters(_)
NumParameters(data) ==
    IF data = <<>> THEN 0 ELSE data[1].free + NumParameters(Tail(data))

create_variational_circuit(num_qubits, num_layers, entanglement, name, timestamp, short_uuid) ==
    LET resolved == IF name = None
                      THEN GenerateUniqueCircuitName(timestamp, short_uuid)
                      ELSE EnsureUnique(name[1], Keys(circuits))
        ansatz == EfficientSU2(num_qubits, num_layers, entanglement)
    IN IF ansatz.raised
         THEN /\ ret' = Error("create_variational_circuit", "", ansatz.exc)
              /\ UNCHANGED <<circuits, order, heap>>
         ELSE /\ Register(resolved, ansatz.circuit)
              /\ ret' = Ret("create_variational_circuit", "ok", resolved,
                            [num_qubits |-> num_qubits, num_layers |-> num_layers,
                             entanglement |-> entanglement,
                             parameters |-> NumParameters(ansatz.circuit.data)])

\* f"{qft_type}_{num_qubits}q_{str(uuid.uuid4())[:8]}"
QftName(inverse, num_qubits, short_uuid) ==
    ((IF inverse THEN "iqft" ELSE "qft") \o "_") \o (ToString(num_qubits) \o ("q_" \o short_uuid))

\* QuantumCircuit(num_qubits) with the QFT gate (or its inverse) appended over all
\* qubits
QftCircuit(num_qubits, inverse) ==
    IF ConstructorRaises(num_qubits, 0) THEN Raised(QuantumCircuit(0, 0), "CircuitError")
    ELSE AppendGate(QuantumCircuit(num_qubits, 0), IF inverse THEN "qft_dg" ELSE "qft",
                    [q \in 1..num_qubits |-> q - 1], <<>>)

implement_qft(num_qubits, inverse, name, short_uuid) ==
    LET resolved == IF name = None
                      THEN QftName(inverse, num_qubits, short_uuid)
                      ELSE EnsureUnique(name[1], Keys(circuits))
        qft == QftCircuit(num_qubits, inverse)
    IN IF qft.raised
         THEN /\ ret' = Error("implement_qft", "", qft.exc)
              /\ UNCHANGED <<circuits, order, heap>>
         ELSE /\ Register(resolved, qft.circuit)
              /\ ret' = Ret("implement_qft", "ok", resolved,
                            [num_qubits |-> num_qubits, inverse |-> inverse,
                             size |-> Size(qft.circuit.data)])

(***************************************************************************)
(* The tools that read one circuit.                                        *)
(***************************************************************************)
Max(a, b) == IF a >= b THEN a ELSE b

\* the wires an instruction touches: qubit q is wire q, classical bit c is wire
\* num_qubits + c
Wires(inst, num_qubits) ==
    {inst.qubits[i] : i \in 1..Len(inst.qubits)}
        \cup {num_qubits + inst.clbits[i] : i \in 1..Len(inst.clbits)}

RECURSIVE MaxOver(_, _)
MaxOver(f, S) ==
    IF S = {} THEN 0
    ELSE LET w == CHOOSE w \in S : TRUE IN Max(f[w], MaxOver(f, S \ {w}))

\* circuit.depth(): the longest path; a directive synchronises its wires but adds
\* no level
RECURSIVE DepthLoop(_, _, _, _)
DepthLoop(data, i, num_qubits, levels) ==
    IF i > Len(data) THEN MaxOver(levels, DOMAIN levels)
    ELSE LET ws == Wires(data[i], num_qubits)
             l  == MaxOver(levels, ws) + (IF data[i].name = "barrier" THEN 0 ELSE 1)
         IN DepthLoop(data, i + 1, num_qubits,
                      [w \in DOMAIN levels |-> IF w \in ws THEN l ELSE levels[w]])

Depth(circuit) ==
    DepthLoop(circuit.data, 1, circuit.num_qubits,
              [w \in 0..(circuit.num_qubits + NumClbits(circuit) - 1) |-> 0])

\* dict(circuit.count_ops())
CountOps(data) ==
    [n \in {data[i].name : i \in 1..Len(data)} |->
        Cardinality({i \in 1..Len(data) : data[i].name = n})]

get_circuit_info(circuit_name) ==
    /\ ret' = IF circuit_name \notin Keys(circuits)
                THEN NotFound("get_circuit_info", circuit_name)
                ELSE LET circuit == Circuit(circuit_name)
                     IN Ret("get_circuit_info", "ok", circuit_name,
                            [num_qubits |-> circuit.num_qubits,
                             num_classical_bits |-> NumClbits(circuit),
                             depth |-> Depth(circuit),
                             size |-> Size(circuit.data),
                             width |-> circuit.num_qubits + NumClbits(circuit),
                             gate_counts |-> CountOps(circuit.data)])
    /\ UNCHANGED <<circuits, order, heap>>

\* The tool without its membership test: circuits[circuit_name] raises KeyError for
\* a name the registry does not hold.
visualize_circuit_unguarded(circuit_name) ==
    /\ ret' = IF circuit_name \notin Keys(circuits)
                THEN Fault("visualize_circuit", "KeyError")
                ELSE Ret("visualize_circuit", "ok", circuit_name,
                         [drawn |-> Circuit(circuit_name).data])
    /\ UNCHANGED <<circuits, order, heap>>

\* str(circuit.draw(output='text')): the drawing is the delegate's
visualize_circuit(circuit_name) ==
    /\ ret' = IF circuit_name \notin Keys(circuits)
                THEN NotFound("visualize_circuit", circuit_name)
                ELSE Ret("visualize_circuit", "ok", circuit_name,
                         [drawn |-> Circuit(circuit_name).data])
    /\ UNCHANGED <<circuits, order, heap>>

list_circuits ==
    /\ ret' = IF Keys(circuits) = {}
                THEN Ret("list_circuits", "ok", "", [message |-> "No circuits created yet"])
                ELSE Ret("list_circuits", "ok", "",
                         [names |-> order,
                          circuit_list |->
                             [n \in Keys(circuits) |->
                                [qubits |-> Circuit(n).num_qubits,
                                 classical_bits |-> NumClbits(Circuit(n)),
                                 gates |-> Size(Circuit(n).data)]]])
    /\ UNCHANGED <<circuits, order, heap>>

(***************************************************************************)
(* The delegate's simulator.  Every gate of the model, with angles that    *)
(* are multiples of pi/2, has (up to a positive scale, which changes no    *)
(* outcome's possibility) a matrix over Z[w], w = exp(i pi/4): an          *)
(* amplitude is <<a, b, c, d>> for a + b w + c w^2 + d w^3, exactly.       *)
(***************************************************************************)
Zero == <<0, 0, 0, 0>>

Amp(n) == <<n, 0, 0, 0>>

Add(x, y) == <<x[1] + y[1], x[2] + y[2], x[3] + y[3], x[4] + y[4]>>

\* the product in Z[w], w^4 = -1
Mul(x, y) ==
    <<x[1] * y[1] - x[2] * y[4] - x[3] * y[3] - x[4] * y[2],
      x[1] * y[2] + x[2] * y[1] - x[3] * y[4] - x[4] * y[3],
      x[1] * y[3] + x[2] * y[2] + x[3] * y[1] - x[4] * y[4],
      x[1] * y[4] + x[2] * y[3] + x[3] * y[2] + x[4] * y[1]>>

\* w^k
W(k) ==
    LET r == k % 8
        sign == IF r >= 4 THEN -1 ELSE 1
    IN [j \in 1..4 |-> IF j = (r % 4) + 1 THEN sign ELSE 0]

\* cos(k pi/4) and sin(k pi/4), scaled by sqrt(2) when k is odd
CosQ(k) == LET r == k % 8 IN IF r \in {0, 1, 7} THEN 1 ELSE IF r \in {2, 6} THEN 0 ELSE -1

SinQ(k) == LET r == k % 8 IN IF r \in {1, 2, 3} THEN 1 ELSE IF r \in {0, 4} THEN 0 ELSE -1

RECURSIVE Pow2(_)
Pow2(n) == IF n = 0 THEN 1 ELSE 2 * Pow2(n - 1)

Bit(idx, q) == (idx \div Pow2(q)) % 2

SetBit(idx, q, b) == idx + (b - Bit(idx, q)) * Pow2(q)

\* the 2x2 matrix of a one-qubit gate, scaled
Matrix1(inst) ==
    LET n == inst.name
        k == IF Len(inst.params) > 0 THEN inst.params[1] ELSE 0
    IN CASE n = "h" -> <<<<Amp(1), Amp(1)>>, <<Amp(1), Amp(-1)>>>>
         [] n = "x" -> <<<<Zero, Amp(1)>>, <<Amp(1), Zero>>>>
         [] n = "y" -> <<<<Zero, W(6)>>, <<W(2), Zero>>>>
         [] n = "z" -> <<<<Amp(1), Zero>>, <<Zero, Amp(-1)>>>>
         [] n = "s" -> <<<<Amp(1), Zero>>, <<Zero, W(2)>>>>
         [] n = "sdg" -> <<<<Amp(1), Zero>>, <<Zero, W(6)>>>>
         [] n = "t" -> <<<<Amp(1), Zero>>, <<Zero, W(1)>>>>
         [] n = "tdg" -> <<<<Amp(1), Zero>>, <<Zero, W(7)>>>>
         [] n = "rx" -> <<<<Amp(CosQ(k)), Mul(W(6), Amp(SinQ(k)))>>,
                          <<Mul(W(6), Amp(SinQ(k))), Amp(CosQ(k))>>>>
         [] n = "ry" -> <<<<Amp(CosQ(k)), Amp(-SinQ(k))>>, <<Amp(SinQ(k)), Amp(CosQ(k))>>>>
         [] n = "rz" -> <<<<W(8 - (k % 8)), Zero>>, <<Zero, W(k)>>>>
         [] OTHER -> \* u(theta, phi, lam)
              LET phi == inst.params[2]
                  lam == inst.params[3]
              IN <<<<Amp(CosQ(k)), Mul(W(2 * lam + 4), Amp(SinQ(k)))>>,
                   <<Mul(W(2 * phi), Amp(SinQ(k))), Mul(W(2 * (phi + lam)), Amp(CosQ(k)))>>>>

Apply1(state, q, M) ==
    [idx \in DOMAIN state |->
        LET b == Bit(idx, q)
        IN Add(Mul(M[b + 1][1], state[SetBit(idx, q, 0)]),
               Mul(M[b + 1][2], state[SetBit(idx, q, 1)]))]

\* the state after a two-qubit gate on qubits q1, q2
Apply2(state, inst) ==
    LET q1 == inst.qubits[1]
        q2 == inst.qubits[2]
        k  == IF Len(inst.params) > 0 THEN inst.params[1] ELSE 0
        both(idx) == SetBit(SetBit(idx, q1, 1 - Bit(idx, q1)), q2, 1 - Bit(idx, q2))
        odd(idx) == Bit(idx, q1) # Bit(idx, q2)
        misin == Mul(W(6), Amp(SinQ(k)))
    IN [idx \in DOMAIN state |->
         CASE inst.name = "cx" ->
                state[IF Bit(idx, q1) = 1 THEN SetBit(idx, q2, 1 - Bit(idx, q2)) ELSE idx]
           [] inst.name = "swap" ->
                state[SetBit(SetBit(idx, q1, Bit(idx, q2)), q2, Bit(idx, q1))]
           [] inst.name = "cp" ->
                IF Bit(idx, q1) = 1 /\ Bit(idx, q2) = 1
                  THEN Mul(W(2 * k), state[idx]) ELSE state[idx]
           [] inst.name = "rxx" ->
                Add(Mul(Amp(CosQ(k)), state[idx]), Mul(misin, state[both(idx)]))
           [] inst.name = "ryy" ->
                Add(Mul(Amp(CosQ(k)), state[idx]),
                    Mul(Mul(misin, Amp(IF odd(idx) THEN 1 ELSE -1)), state[both(idx)]))
           [] OTHER -> \* rzz
                Mul(IF odd(idx) THEN W(k) ELSE W(8 - (k % 8)), state[idx])]

RECURSIVE SumAmp(_, _)
SumAmp(f, S) ==
    IF S = {} THEN Zero
    ELSE LET j == CHOOSE j \in S : TRUE IN Add(f[j], SumAmp(f, S \ {j}))

\* the Fourier transform over all n <= 3 qubits (or its inverse), scaled
ApplyQft(state, n, inverse) ==
    LET step == 8 \div Pow2(n)
    IN [idx \in DOMAIN state |->
          SumAmp([j \in DOMAIN state |->
                     Mul(W((IF inverse THEN 8 - step ELSE step) * ((idx * j) % 8)), state[j])],
                 DOMAIN state)]

ApplyUnitary(state, inst, n) ==
    CASE inst.name \in {"qft", "qft_dg"} -> ApplyQft(state, n, inst.name = "qft_dg")
      [] Len(inst.qubits) = 2 -> Apply2(state, inst)
      [] OTHER -> Apply1(state, inst.qubits[1], Matrix1(inst))

\* the classical memories one shot may end with
RECURSIVE Shot(_, _, _, _, _)
Shot(data, i, state, cmem, n) ==
    IF i > Len(data) THEN {cmem}
    ELSE LET inst == data[i]
         IN CASE inst.name = "barrier" -> Shot(data, i + 1, state, cmem, n)
              [] inst.name = "measure" ->
                   LET q == inst.qubits[1]
                       c == inst.clbits[1]
                   IN UNION {Shot(data, i + 1,
                                  [idx \in DOMAIN state |->
                                      IF Bit(idx, q) = b THEN state[idx] ELSE Zero],
                                  [cmem EXCEPT ![c] = b], n)
                             : b \in {b \in {0, 1} :
                                        \E idx \in DOMAIN state :
                                            Bit(idx, q) = b /\ state[idx] # Zero}}
              [] OTHER -> Shot(data, i + 1, ApplyUnitary(state, inst, n), cmem, n)

Memories(circuit) ==
    Shot(circuit.data, 1,
         [idx \in 0..(Pow2(circuit.num_qubits) - 1) |-> IF idx = 0 THEN Amp(1) ELSE Zero],
         [c \in 0..(NumClbits(circuit) - 1) |-> 0], circuit.num_qubits)

\* the bits first + size - 1 down to first, as a string
RECURSIVE RegisterString(_, _, _)
RegisterString(cmem, first, size) ==
    IF size = 0 THEN ""
    ELSE ToString(cmem[first + size - 1]) \o RegisterString(cmem, first, size - 1)

\* Result.get_counts() formats a memory with the register added last leftmost and a
\* space between registers
RECURSIVE FormatKey(_, _, _)
FormatKey(cmem, cregs, first) ==
    IF cregs = <<>> THEN ""
    ELSE LET rest == FormatKey(cmem, Tail(cregs), first + cregs[1])
             this == RegisterString(cmem, first, cregs[1])
         IN IF rest = "" THEN this ELSE (rest \o " ") \o this

\* the bitstrings a run may report
Support(circuit) == {FormatKey(m, circuit.cregs, 0) : m \in Memories(circuit)}

(***************************************************************************)
(* run_circuit.  The simulator draws each shot at random: the run reports  *)
(* some of the possible bitstrings, with counts that add up to the shots.  *)
(***************************************************************************)
\* simulator.run() raises for an instruction with an unbound parameter: the
\* simulator cannot build the gate's matrix
RunRaises(circuit) == \E i \in 1..Len(circuit.data) : circuit.data[i].free > 0

\* the counts of a run of `shots` shots in which exactly the bitstrings `seen` came
\* up: all but `most` once, or all evenly with the remainder on `most`
CountsOf(seen, most, even, shots) ==
    LET k == Cardinality(seen)
    IN [b \in seen |->
          IF even THEN (shots \div k) + (IF b = most THEN shots % k ELSE 0)
          ELSE IF b = most THEN shots - (k - 1) ELSE 1]

\* result.get_counts(): empty when the circuit has no classical register
PossibleCounts(circuit, shots) ==
    IF circuit.cregs = <<>> THEN {EmptyDict}
    ELSE {CountsOf(seen, most, even, shots) :
            <<seen, most, even>> \in
               {t \in (SUBSET Support(circuit)) \X Support(circuit) \X BOOLEAN :
                  /\ t[2] \in t[1]
                  /\ Cardinality(t[1]) <= shots}}

\* sum(counts.values())
RECURSIVE SumValues(_, _)
SumValues(counts, S) ==
    IF S = {} THEN 0
    ELSE LET b == CHOOSE b \in S : TRUE IN counts[b] + SumValues(counts, S \ {b})

run_circuit(circuit_name, shots) ==
    /\ IF circuit_name \notin Keys(circuits)
         THEN ret' = NotFound("run_circuit", circuit_name)
       ELSE IF RunRaises(Circuit(circuit_name))
         THEN ret' = Fault("run_circuit", "unbound parameter")
       ELSE \E counts \in PossibleCounts(Circuit(circuit_name), shots) :
              ret' = Ret("run_circuit", "ok", circuit_name,
                         [shots |-> shots, results |-> counts,
                          total_counts |-> SumValues(counts, DOMAIN counts)])
    /\ UNCHANGED <<circuits, order, heap>>

(***************************************************************************)
(* The state analyses work on a copy with the final measurements removed.  *)
(***************************************************************************)
SharesWire(a, b, num_qubits) == Wires(a, num_qubits) \cap Wires(b, num_qubits) # {}

\* the positions of the final operations: a measurement or a barrier all of whose
\* successors are final
RECURSIVE FinalOps(_, _, _, _)
FinalOps(data, i, num_qubits, final) ==
    IF i = 0 THEN final
    ELSE FinalOps(data, i - 1, num_qubits,
                  IF /\ data[i].name \in {"measure", "barrier"}
                     /\ \A j \in (i + 1)..Len(data) :
                           SharesWire(data[i], data[j], num_qubits) => j \in final
                    THEN final \cup {i} ELSE final)

RECURSIVE Without(_, _, _)
Without(data, i, drop) ==
    IF i > Len(data) THEN <<>>
    ELSE (IF i \in drop THEN <<>> ELSE <<data[i]>>) \o Without(data, i + 1, drop)

\* circuit_copy.remove_final_measurements(inplace=True), as far as the instructions go
RemoveFinalMeasurements(circuit) ==
    [circuit EXCEPT
       !.data = Without(@, 1, FinalOps(@, Len(@), circuit.num_qubits, {}))]

\* Statevector(circuit_copy) raises for a measurement left in the circuit and for an
\* unbound parameter
StatevectorRaises(circuit) ==
    \E i \in 1..Len(circuit.data) :
        circuit.data[i].name = "measure" \/ circuit.data[i].free > 0

RECURSIVE Evolve(_, _, _, _)
Evolve(data, i, state, n) ==
    IF i > Len(data) THEN state
    ELSE Evolve(data, i + 1,
                IF data[i].name = "barrier" THEN state ELSE ApplyUnitary(state, data[i], n), n)

\* the basis states of nonzero probability, as indices
ProbableStates(circuit) ==
    LET final == Evolve(circuit.data, 1,
                        [idx \in 0..(Pow2(circuit.num_qubits) - 1) |->
                            IF idx = 0 THEN Amp(1) ELSE Zero],
                        circuit.num_qubits)
    IN {idx \in DOMAIN final : final[idx] # Zero}

\* The analysis without the copy: the final measurements are removed from the
\* registered circuit itself.
analyze_statevector_in_place(circuit_name) ==
    IF circuit_name \notin Keys(circuits)
      THEN /\ ret' = NotFound("analyze_statevector", circuit_name)
           /\ UNCHANGED <<circuits, order, heap>>
    ELSE LET circuit == RemoveFinalMeasurements(Circuit(circuit_name))
         IN /\ heap' = [heap EXCEPT ![circuits[circuit_name]] = circuit]
            /\ ret' = IF StatevectorRaises(circuit)
                        THEN Error("analyze_statevector", circuit_name, "QiskitError")
                        ELSE Ret("analyze_statevector", "ok", circuit_name,
                                 [num_qubits |-> circuit.num_qubits,
                                  state_dimension |-> Pow2(circuit.num_qubits),
                                  probable |-> ProbableStates(circuit)])
            /\ UNCHANGED <<circuits, order>>

analyze_statevector(circuit_name) ==
    /\ ret' = IF circuit_name \notin Keys(circuits)
                THEN NotFound("analyze_statevector", circuit_name)
                ELSE LET circuit == Circuit(circuit_name)
                         circuit_copy == RemoveFinalMeasurements(circuit)
                     IN IF StatevectorRaises(circuit_copy)
                          THEN Error("analyze_statevector", circuit_name, "QiskitError")
                          ELSE Ret("analyze_statevector", "ok", circuit_name,
                                   [num_qubits |-> circuit.num_qubits,
                                    state_dimension |-> Pow2(circuit.num_qubits),
                                    probable |-> ProbableStates(circuit_copy)])
    /\ UNCHANGED <<circuits, order, heap>>

\* The density matrix without the copy: the final measurements are removed from the
\* registered circuit itself.
compute_density_matrix_in_place(circuit_name) ==
    IF circuit_name \notin Keys(circuits)
      THEN /\ ret' = NotFound("compute_density_matrix", circuit_name)
           /\ UNCHANGED <<circuits, order, heap>>
    ELSE LET circuit == RemoveFinalMeasurements(Circuit(circuit_name))
         IN /\ heap' = [heap EXCEPT ![circuits[circuit_name]] = circuit]
            /\ ret' = IF StatevectorRaises(circuit)
                        THEN Error("compute_density_matrix", circuit_name, "QiskitError")
                        ELSE Ret("compute_density_matrix", "ok", circuit_name,
                                 [num_qubits |-> circuit.num_qubits,
                                  partial_trace |-> circuit.num_qubits >= 2])
            /\ UNCHANGED <<circuits, order>>

compute_density_matrix(circuit_name) ==
    /\ ret' = IF circuit_name \notin Keys(circuits)
                THEN NotFound("compute_density_matrix", circuit_name)
                ELSE LET circuit == Circuit(circuit_name)
                         circuit_copy == RemoveFinalMeasurements(circuit)
                     IN IF StatevectorRaises(circuit_copy)
                          THEN Error("compute_density_matrix", circuit_name, "QiskitError")
                          ELSE Ret("compute_density_matrix", "ok", circuit_name,
                                   [num_qubits |-> circuit.num_qubits,
                                    partial_trace |-> circuit.num_qubits >= 2])
    /\ UNCHANGED <<circuits, order, heap>>

(***************************************************************************)
(* visualize_circuit_mermaid.  The flowchart is kept as the list            *)
(* mermaid_lines of the code, each line as what it says: a node            *)
(* declaration `id[label]`, an edge `from --> to`, or plain text.          *)
(***************************************************************************)
NodeLine(id, label) == [kind |-> "node", id |-> id, label |-> label]

EdgeLine(from, to) == [kind |-> "edge", from |-> from, to |-> to]

TextLine(text) == [kind |-> "text", text |-> text]

\* gate.name.upper() on the instruction names of the model
NameUpper(s) ==
    CASE s = "measure" -> "MEASURE" [] s = "barrier" -> "BARRIER"
      [] s = "cx" -> "CX" [] s = "cp" -> "CP" [] s = "u" -> "U" [] s = "swap" -> "SWAP"
      [] s = "sdg" -> "SDG" [] s = "tdg" -> "TDG"
      [] s = "qft" -> "QFT" [] s = "qft_dg" -> "QFT_DG"
      [] OTHER -> Upper(s)

\* gate_name.startswith('R')
StartsWithR(gate_name) == gate_name \in {"RX", "RY", "RZ", "RXX", "RYY", "RZZ"}

\* pi/2 in millionths: the angles of the model are whole multiples of pi/2
HalfPiMillionths == 1570796

\* three digits after the point
Digits3(n) ==
    IF n < 10 THEN "00" \o ToString(n) ELSE IF n < 100 THEN "0" \o ToString(n) ELSE ToString(n)

\* f"{angle:.3f}" for the angle k * pi/2: the nearest thousandth
Format3(k) ==
    LET a == IF k < 0 THEN -k ELSE k
        thousandths == (a * HalfPiMillionths + 500) \div 1000
    IN ((IF k < 0 /\ thousandths > 0 THEN "-" ELSE "") \o ToString(thousandths \div 1000))
          \o ("." \o Digits3(thousandths % 1000))

\* Edges drawn backwards, from the new node to the current node of each qubit.
WireEdgesReversed(qubits, current, node_id) ==
    [k \in 1..Len(qubits) |-> EdgeLine(node_id, current[qubits[k]])]

\* the edges one instruction emits: one from the current node of each of its qubits
WireEdges(qubits, current, node_id) ==
    [k \in 1..Len(qubits) |-> EdgeLine(current[qubits[k]], node_id)]

\* Pointers that follow the first qubit of an instruction only.
PointedFirstOnly(current, qubits, node_id) ==
    [q \in DOMAIN current |-> IF qubits[1] = q THEN node_id ELSE current[q]]

\* qubit_current_nodes[qubit] = node_id for each of the qubits
Pointed(current, qubits, node_id) ==
    [q \in DOMAIN current |->
        IF \E k \in 1..Len(qubits) : qubits[k] = q THEN node_id ELSE current[q]]

Emitted(lines, current) == [raised |-> FALSE, exc |-> "", lines |-> lines, current |-> current]

\* the body of `for instruction in circuit.data`: the lines one instruction adds and
\* the pointers after it.  A rotation whose angle is an unbound parameter cannot be
\* formatted with :.3f, and the f-string raises TypeError.
MermaidInstruction(inst, gate_counter, current) ==
    LET gate_name == NameUpper(inst.name)
        qubits    == inst.qubits
        clbits    == inst.clbits
        n         == ToString(gate_counter)
    IN CASE gate_name = "H" ->
              Emitted(<<NodeLine("H" \o n, "H Gate"),
                        EdgeLine(current[qubits[1]], "H" \o n)>>,
                      Pointed(current, <<qubits[1]>>, "H" \o n))
         [] gate_name \in {"X", "Y", "Z"} ->
              Emitted(<<NodeLine(gate_name \o n, gate_name \o " Gate"),
                        EdgeLine(current[qubits[1]], gate_name \o n)>>,
                      Pointed(current, <<qubits[1]>>, gate_name \o n))
         [] gate_name \in {"CX", "CNOT"} ->
              Emitted(<<NodeLine("CNOT" \o n, "CNOT Gate"),
                        EdgeLine(current[qubits[1]], "CNOT" \o n),
                        EdgeLine(current[qubits[2]], "CNOT" \o n)>>,
                      Pointed(current, <<qubits[1], qubits[2]>>, "CNOT" \o n))
         [] gate_name = "MEASURE" ->
              Emitted(<<NodeLine("M" \o n, "Measure"),
                        EdgeLine(current[qubits[1]], "M" \o n)>>
                        \o (IF clbits # <<>>
                              THEN <<EdgeLine("M" \o n,
                                              (("C" \o ToString(clbits[1])) \o "_end") \o n)>>
                              ELSE <<>>),
                      Pointed(current, <<qubits[1]>>, "M" \o n))
         [] StartsWithR(gate_name) ->
              IF inst.free > 0
                THEN [raised |-> TRUE, exc |-> "TypeError", lines |-> <<>>,
                      current |-> current]
                ELSE LET param_str == IF inst.params # <<>>
                                        THEN ("(" \o Format3(inst.params[1])) \o ")"
                                        ELSE ""
                     IN Emitted(<<NodeLine(gate_name \o n, gate_name \o param_str)>>
                                  \o WireEdges(qubits, current, gate_name \o n),
                                Pointed(current, qubits, gate_name \o n))
         [] gate_name = "SWAP" ->
              Emitted(<<NodeLine("SWAP" \o n, "SWAP Gate"),
                        EdgeLine(current[qubits[1]], "SWAP" \o n),
                        EdgeLine(current[qubits[2]], "SWAP" \o n)>>,
                      Pointed(current, <<qubits[1], qubits[2]>>, "SWAP" \o n))
         [] OTHER ->
              Emitted(<<NodeLine(gate_name \o n, gate_name \o " Gate")>>
                        \o WireEdges(qubits, current, gate_name \o n),
                      Pointed(current, qubits, gate_name \o n))

\* `for instruction in circuit.data`, from the instruction at position i (1-based) on;
\* gate_counter is i when the instruction is handled
RECURSIVE MermaidLoop(_, _, _, _)
MermaidLoop(data, i, lines, current) ==
    IF i > Len(data) THEN Emitted(lines, current)
    ELSE LET r == MermaidInstruction(data[i], i, current)
         IN IF r.raised THEN r
            ELSE MermaidLoop(data, i + 1, lines \o r.lines, r.current)

\* the two lines of each qubit's final node, qubit after qubit
RECURSIVE FinalLines(_, _, _)
FinalLines(i, num_qubits, current) ==
    IF i >= num_qubits THEN <<>>
    ELSE <<NodeLine(("Q" \o ToString(i)) \o "_final", ("Q" \o ToString(i)) \o " Final"),
           EdgeLine(current[i], ("Q" \o ToString(i)) \o "_final")>>
            \o FinalLines(i + 1, num_qubits, current)

Styling ==
    <<TextLine(""), TextLine("%% Styling"), TextLine("classDef qubitNode"),
      TextLine("classDef gateNode"), TextLine("classDef measureNode"),
      TextLine("classDef classicalNode")>>

\* the whole list, or the exception that leaves the loop
MermaidLines(circuit) ==
    LET num_qubits == circuit.num_qubits
        num_clbits == NumClbits(circuit)
        \* (the ket of the qubit's label is written |0> here)
        starts == [i \in 1..num_qubits |->
                     NodeLine(("Q" \o ToString(i - 1)) \o "_start",
                              "|0> Q" \o ToString(i - 1))]
                    \o [i \in 1..num_clbits |->
                          NodeLine(("C" \o ToString(i - 1)) \o "_start",
                                   "0 C" \o ToString(i - 1))]
        qubit_current_nodes == [i \in 0..(num_qubits - 1) |->
                                  ("Q" \o ToString(i)) \o "_start"]
        r == MermaidLoop(circuit.data, 1, <<TextLine("flowchart TD")>> \o starts,
                         qubit_current_nodes)
    IN IF r.raised THEN r
       ELSE Emitted((r.lines \o FinalLines(0, num_qubits, r.current)) \o Styling, r.current)

visualize_circuit_mermaid(circuit_name) ==
    /\ ret' = IF circuit_name \notin Keys(circuits)
                THEN NotFound("visualize_circuit_mermaid", circuit_name)
                ELSE LET r == MermaidLines(Circuit(circuit_name))
                     IN IF r.raised THEN Fault("visualize_circuit_mermaid", r.exc)
                        ELSE Ret("visualize_circuit_mermaid", "ok", circuit_name,
                                 [lines |-> r.lines])
    /\ UNCHANGED <<circuits, order, heap>>

(***************************************************************************)
(* optimize_circuit.  Level 0 copies; the passes of the other levels are   *)
(* the delegate's: they hand back a new circuit over the same registers,   *)
(* modelled as the original with any number of adjacent pairs of equal     *)
(* self-inverse gates cancelled.                                           *)
(***************************************************************************)
\* A copy that takes the qubits and the instructions but not the classical
\* registers.
CopyWithoutClbits(circuit) == [circuit EXCEPT !.cregs = <<>>]

\* circuit.copy(): a new object with the same registers and instructions
Copy(circuit) == circuit

Cancels(a, b) == a = b /\ a.name \in {"h", "x", "y", "z", "cx", "swap"}

RECURSIVE Cancelled(_)
Cancelled(data) ==
    {data} \cup UNION {Cancelled(SubSeq(data, 1, i - 1) \o SubSeq(data, i + 2, Len(data)))
                       : i \in {i \in 1..(Len(data) - 1) : Cancels(data[i], data[i + 1])}}

\* what pass_manager.run(circuit) may hand back (and transpile, for a circuit of
\* plain gates)
PassOutputs(circuit) == {[circuit EXCEPT !.data = d] : d \in Cancelled(circuit.data)}

\* The gates the transpiler's synthesis puts in the place of a QFT gate over the
\* (at most two) qubits of a circuit: H, controlled phase pi/2, H, swap; reversed,
\* with the opposite phase, for the inverse.
SynthesizedQft(inst) ==
    IF Len(inst.qubits) = 1 THEN <<Instruction("h", inst.qubits, <<>>, <<>>)>>
    ELSE LET q0 == inst.qubits[1]
             q1 == inst.qubits[2]
         IN IF inst.name = "qft"
              THEN << Instruction("h", <<q1>>, <<>>, <<>>),
                      Instruction("cp", <<q0, q1>>, <<>>, <<1>>),
                      Instruction("h", <<q0>>, <<>>, <<>>),
                      Instruction("swap", <<q0, q1>>, <<>>, <<>>) >>
              ELSE << Instruction("swap", <<q0, q1>>, <<>>, <<>>),
                      Instruction("h", <<q0>>, <<>>, <<>>),
                      Instruction("cp", <<q0, q1>>, <<>>, <<3>>),
                      Instruction("h", <<q1>>, <<>>, <<>>) >>

RECURSIVE Synthesized(_)
Synthesized(data) ==
    IF data = <<>> THEN <<>>
    ELSE (IF data[1].name \in {"qft", "qft_dg"} THEN SynthesizedQft(data[1])
          ELSE <<data[1]>>) \o Synthesized(Tail(data))

\* what transpile(circuit, optimization_level=3) may hand back: the passes' output,
\* with the QFT gates left as they are or synthesized into plain gates
TranspileOutputs(circuit) ==
    PassOutputs(circuit) \cup PassOutputs([circuit EXCEPT !.data = Synthesized(@)])

\* round(numerator / denominator * 100, 2), in hundredths of a percent: the nearest
\* hundredth (a tie, which takes a denominator of 32 or more, goes to the even one)
Round2(numerator, denominator) ==
    LET a == (IF numerator < 0 THEN -numerator ELSE numerator) * 10000
        q == a \div denominator
        r == a % denominator
        m == IF 2 * r > denominator \/ (2 * r = denominator /\ q % 2 = 1) THEN q + 1 ELSE q
    IN IF numerator < 0 THEN -m ELSE m

\* A percentage taken against the optimized size.
ImprovementOfOptimized(original_size, optimized_size) ==
    IF optimized_size > 0 THEN Round2(original_size - optimized_size, optimized_size) ELSE 0

\* "improvement_percentage", in hundredths of a percent
ImprovementPercentage(original_size, optimized_size) ==
    IF original_size > 0 THEN Round2(original_size - optimized_size, original_size) ELSE 0

\* A level check that lets level 4 through.
OptimizationLevelsUpTo4 == {0, 1, 2, 3, 4}

\* `optimization_level not in [0, 1, 2, 3]`
OptimizationLevels == {0, 1, 2, 3}

\* f"{circuit_name}_opt{optimization_level}_{str(uuid.uuid4())[:8]}"
OptimizedName(circuit_name, optimization_level, short_uuid) ==
    (circuit_name \o "_opt") \o (ToString(optimization_level) \o ("_" \o short_uuid))

optimize_circuit(circuit_name, optimization_level, short_uuid) ==
    IF circuit_name \notin Keys(circuits)
      THEN /\ ret' = NotFound("optimize_circuit", circuit_name)
           /\ UNCHANGED <<circuits, order, heap>>
    ELSE IF optimization_level \notin OptimizationLevels
      THEN /\ ret' = Ret("optimize_circuit", "invalid_level", "",
                         [message |-> "Optimization level must be 0, 1, 2, or 3"])
           /\ UNCHANGED <<circuits, order, heap>>
    ELSE LET circuit == Circuit(circuit_name)
             optimized_name == OptimizedName(circuit_name, optimization_level, short_uuid)
         IN \E optimized_circuit \in
                 (CASE optimization_level = 0 -> {Copy(circuit)}
                    [] optimization_level \in {1, 2} -> PassOutputs(circuit)
                    [] OTHER -> TranspileOutputs(circuit)) :
              /\ Register(optimized_name, optimized_circuit)
              /\ ret' = Ret("optimize_circuit", "ok", circuit_name,
                            [optimized_circuit |-> optimized_name,
                             optimization_level |-> optimization_level,
                             original_size |-> Size(circuit.data),
                             optimized_size |-> Size(optimized_circuit.data),
                             size_reduction |->
                                Size(circuit.data) - Size(optimized_circuit.data),
                             original_depth |-> Depth(circuit),
                             optimized_depth |-> Depth(optimized_circuit),
                             depth_reduction |-> Depth(circuit) - Depth(optimized_circuit),
                             improvement_percentage |->
                                ImprovementPercentage(Size(circuit.data),
                                                      Size(optimized_circuit.data))])

(***************************************************************************)
(* The batches the gate-addition tools are called with.                    *)
(***************************************************************************)
G(type, qubits) == Gate(type, qubits, None, <<>>)

R(type, qubits, params) == Gate(type, qubits, None, params)

BasicBatches ==
    { <<G("h", <<0>>), G("cx", <<0, 1>>), G("measure_all", <<>>)>>,
      <<G("x", <<0>>), G("x", <<0>>)>>,
      <<G("H", <<0>>), G("Foo", <<0>>), G("x", <<0>>)>>,
      <<G("z", <<-1>>), G("y", <<2>>), G("h", <<0>>)>>,
      <<Gate("measure", <<0>>, Some(0), <<>>), G("h", <<>>)>>,
      <<G("measure", <<0>>), Gate("measure", <<0>>, Some(5), <<>>)>>,
      <<G("cx", <<0, 0>>)>>,
      <<G("measure", <<0>>), G("h", <<0>>)>>,
      <<R("rx", <<0>>, <<1>>)>> }

AdvancedBatches ==
    { <<R("rx", <<0>>, <<1>>), R("rzz", <<0, 1>>, <<2>>)>>,
      <<R("u", <<0>>, <<1, 0, 2>>), G("t", <<0>>)>>,
      <<G("s", <<0>>), G("Foo", <<0>>), G("sdg", <<0>>)>>,
      <<R("RX", <<-1>>, <<>>), R("ry", <<2>>, <<1>>), G("tdg", <<0>>)>>,
      <<G("swap", <<0, 1>>), G("swap", <<0>>)>>,
      <<R("ryy", <<0, 1>>, <<1>>), R("rxx", <<1, 1>>, <<1>>)>>,
      <<G("h", <<0>>)>> }

(***************************************************************************)
(* The server: an empty registry, then one tool call after another.        *)
(***************************************************************************)
Init ==
    /\ circuits = EmptyDict
    /\ order = <<>>
    /\ heap = EmptyDict
    /\ ret = Ret("none", "none", "", [message |-> ""])
    /\ calls = 0
    /\ pending = EmptyDict

CircuitNames == Keys(circuits) \cup LookupChoices

\* one more tool call, while the model's bound allows it
Tick(bound) == calls < bound /\ calls' = calls + 1 /\ UNCHANGED pending

\* Every tool, on every input of the model.
Next ==
    \/ \E num_qubits \in QubitChoices, num_classical_bits \in ClbitChoices,
          name \in NameChoices, timestamp \in Clock, short_uuid \in Uuid8 :
          /\ Tick(MaxCalls)
          /\ create_quantum_circuit(num_qubits, num_classical_bits, name,
                                    timestamp, short_uuid)
    \/ \E num_qubits \in QubitChoices, num_layers \in LayerChoices,
          entanglement \in EntanglementChoices, name \in NameChoices,
          timestamp \in Clock, short_uuid \in Uuid8 :
          /\ Tick(MaxCalls)
          /\ create_variational_circuit(num_qubits, num_layers, entanglement, name,
                                        timestamp, short_uuid)
    \/ \E num_qubits \in QubitChoices, inverse \in BOOLEAN, name \in NameChoices,
          short_uuid \in Uuid8 :
          Tick(MaxCalls) /\ implement_qft(num_qubits, inverse, name, short_uuid)
    \/ \E circuit_name \in CircuitNames, gates \in BasicBatches :
          Tick(MaxCalls) /\ add_gates(circuit_name, gates)
    \/ \E circuit_name \in CircuitNames, gates \in AdvancedBatches :
          Tick(MaxCalls) /\ add_advanced_gates(circuit_name, gates)
    \/ \E circuit_name \in CircuitNames, shots \in ShotChoices :
          Tick(MaxCalls) /\ run_circuit(circuit_name, shots)
    \/ \E circuit_name \in CircuitNames : Tick(MaxCalls) /\ get_circuit_info(circuit_name)
    \/ \E circuit_name \in CircuitNames : Tick(MaxCalls) /\ visualize_circuit(circuit_name)
    \/ \E circuit_name \in CircuitNames :
          Tick(MaxCalls) /\ visualize_circuit_mermaid(circuit_name)
    \/ Tick(MaxCalls) /\ list_circuits
    \/ \E circuit_name \in CircuitNames :
          Tick(MaxCalls) /\ analyze_statevector(circuit_name)
    \/ \E circuit_name \in CircuitNames :
          Tick(MaxCalls) /\ compute_density_matrix(circuit_name)
    \/ \E circuit_name \in CircuitNames, optimization_level \in LevelChoices,
          short_uuid \in Uuid8 :
          Tick(MaxCalls) /\ optimize_circuit(circuit_name, optimization_level, short_uuid)

Spec == Init /\ [][Next]_vars

\* The tools that give a circuit its name, followed further: circuits of two qubits
\* under every name of the model, created within one millisecond (the forward QFT
\* only), and optimized at the copying level and at the transpiler's level.
NamingClock == {1}

NamingLevels == {0, 3}

NamingNext ==
    \/ \E name \in NameChoices, timestamp \in NamingClock, short_uuid \in Uuid8 :
          /\ Tick(MaxNamingCalls)
          /\ create_quantum_circuit(2, None, name, timestamp, short_uuid)
    \/ \E name \in NameChoices, timestamp \in NamingClock, short_uuid \in Uuid8 :
          /\ Tick(MaxNamingCalls)
          /\ create_variational_circuit(2, 1, "full", name, timestamp, short_uuid)
    \/ \E name \in NameChoices, short_uuid \in Uuid8 :
          Tick(MaxNamingCalls) /\ implement_qft(2, FALSE, name, short_uuid)
    \/ \E circuit_name \in CircuitNames, gates \in {<<G("x", <<0>>), G("x", <<0>>)>>} :
          Tick(MaxNamingCalls) /\ add_gates(circuit_name, gates)
    \/ \E circuit_name \in CircuitNames, optimization_level \in NamingLevels,
          short_uuid \in Uuid8 :
          /\ Tick(MaxNamingCalls)
          /\ optimize_circuit(circuit_name, optimization_level, short_uuid)

NamingSpec == Init /\ [][NamingNext]_vars

\* The tools that build one circuit, and the tools that read it, followed further.
GatesNext ==
    \/ \E num_qubits \in QubitChoices, num_classical_bits \in ClbitChoices :
          /\ Tick(MaxGateCalls)
          /\ create_quantum_circuit(num_qubits, num_classical_bits, Some("a"),
                                    1, "0a0a0a0a")
    \/ \E circuit_name \in CircuitNames, gates \in BasicBatches :
          Tick(MaxGateCalls) /\ add_gates(circuit_name, gates)
    \/ \E circuit_name \in CircuitNames, gates \in AdvancedBatches :
          Tick(MaxGateCalls) /\ add_advanced_gates(circuit_name, gates)
    \/ \E circuit_name \in CircuitNames, shots \in ShotChoices :
          Tick(MaxGateCalls) /\ run_circuit(circuit_name, shots)
    \/ \E circuit_name \in CircuitNames :
          Tick(MaxGateCalls) /\ analyze_statevector(circuit_name)
    \/ \E circuit_name \in CircuitNames :
          Tick(MaxGateCalls) /\ compute_density_matrix(circuit_name)
    \/ \E circuit_name \in CircuitNames :
          Tick(MaxGateCalls) /\ visualize_circuit_mermaid(circuit_name)
    \/ \E circuit_name \in CircuitNames :
          Tick(MaxGateCalls) /\ get_circuit_info(circuit_name)
    \/ \E circuit_name \in CircuitNames :
          Tick(MaxGateCalls) /\ visualize_circuit(circuit_name)
    \/ Tick(MaxGateCalls) /\ list_circuits

GatesSpec == Init /\ [][GatesNext]_vars

(***************************************************************************)
(* Calls that overlap.  Each thread runs one tool function at a time; a    *)
(* step is one statement that reads or writes the registry or a circuit   *)
(* (a membership test, a delegate call, an insertion).  A call in flight   *)
(* is a frame: the tool, the position, the local variables `name`,         *)
(* `original_name`, `counter`, the registered object the call looked up       *)
(* (`ref`), the object the call has made and not yet registered (`made`),  *)
(* and the remaining arguments and locals.                                 *)
(***************************************************************************)
Threads == {1, 2}

\* the reference of a local variable not yet assigned
NoRef == -1

Frame(tool, pc, name, original_name, counter, ref, made, args) ==
    [tool |-> tool, pc |-> pc, name |-> name, original_name |-> original_name,
     counter |-> counter, ref |-> ref, made |-> made, args |-> args]

Idle(t) == t \notin DOMAIN pending

At(t, pc) == t \in DOMAIN pending /\ pending[t].pc = pc

Started(t, frame) == [u \in (DOMAIN pending) \cup {t} |-> IF u = t THEN frame ELSE pending[u]]

Finished(t) == [u \in (DOMAIN pending) \ {t} |-> pending[u]]

\* one more call is made, while the model's bound allows it
Enter == calls < MaxConcurrentCalls /\ calls' = calls + 1

\* an object lives as long as a registered name or a local variable refers to it
CollectLive(h, d, p) ==
    [r \in (Refs(d) \cup {p[u].ref : u \in DOMAIN p} \cup {p[u].made : u \in DOMAIN p})
              \cap DOMAIN h |-> h[r]]

\* A creation tool is entered with an explicit name: original_name = name; counter = 1.
begin_creation(t, tool, name, args) ==
    /\ Idle(t)
    /\ Enter
    /\ pending' = Started(t, Frame(tool, "while", name, name, 1, NoRef, NoRef, args))
    /\ UNCHANGED <<circuits, order, heap, ret>>

\* `while name in circuits:` one test, and the body when it holds
while_name_in_circuits(t) ==
    /\ At(t, "while")
    /\ LET f == pending[t]
       IN pending' = [pending EXCEPT ![t] =
                        IF f.name \in Keys(circuits)
                          THEN [f EXCEPT !.name = (f.original_name \o "_")
                                                     \o ToString(f.counter),
                                         !.counter = f.counter + 1]
                          ELSE [f EXCEPT !.pc = "construct"]]
    /\ UNCHANGED <<circuits, order, heap, ret, calls>>

\* A QFT whose gate is never appended: the empty circuit goes straight to the
\* registry.
AfterConstructSkipping(tool) == "insert"

\* the statement after the constructor: the QFT appends its gate, the others insert
AfterConstruct(tool) == IF tool = "implement_qft" THEN "append" ELSE "insert"

\* The delegate call that makes the new object: QuantumCircuit(num_qubits,
\* num_classical_bits), efficient_su2(...), or QuantumCircuit(num_qubits) for the QFT.
\* The object is the tool's own until it is inserted.
construct_circuit(t) ==
    /\ At(t, "construct")
    /\ LET f == pending[t]
           a == f.args
           built == CASE f.tool = "create_quantum_circuit" ->
                          IF ConstructorRaises(a.num_qubits, a.num_classical_bits)
                            THEN Raised(QuantumCircuit(0, 0), "CircuitError")
                            ELSE Returned(QuantumCircuit(a.num_qubits, a.num_classical_bits))
                     [] f.tool = "create_variational_circuit" ->
                          EfficientSU2(a.num_qubits, a.num_layers, a.entanglement)
                     [] OTHER ->
                          IF ConstructorRaises(a.num_qubits, 0)
                            THEN Raised(QuantumCircuit(0, 0), "CircuitError")
                            ELSE Returned(QuantumCircuit(a.num_qubits, 0))
           new == NewRef(heap)
       IN IF built.raised
            THEN /\ ret' = IF f.tool = "create_quantum_circuit"
                             THEN Fault(f.tool, built.exc) ELSE Error(f.tool, "", built.exc)
                 /\ pending' = Finished(t)
                 /\ UNCHANGED heap
            ELSE /\ heap' = Alloc(heap, new, built.circuit)
                 /\ pending' = [pending EXCEPT ![t] =
                                  [@ EXCEPT !.made = new, !.pc = AfterConstruct(f.tool)]]
                 /\ UNCHANGED ret
    /\ UNCHANGED <<circuits, order, calls>>

\* qft_circuit.append(qft_gate, range(num_qubits))
append_qft(t) ==
    /\ At(t, "append")
    /\ LET f == pending[t]
           n == f.args.num_qubits
       IN heap' = [heap EXCEPT ![f.made] =
                     AppendGate(@, IF f.args.inverse THEN "qft_dg" ELSE "qft",
                                [q \in 1..n |-> q - 1], <<>>).circuit]
    /\ pending' = [pending EXCEPT ![t] = [@ EXCEPT !.pc = "insert"]]
    /\ UNCHANGED <<circuits, order, ret, calls>>

\* circuits[name] = circuit, and the return of the confirmation
insert_circuit(t) ==
    /\ At(t, "insert")
    /\ LET f == pending[t]
           d == SetItem(circuits, f.name, f.made)
           circuit == heap[f.made]
       IN /\ circuits' = d
          /\ order' = SetItemOrder(circuits, order, f.name)
          /\ pending' = Finished(t)
          /\ heap' = CollectLive(heap, d, Finished(t))
          /\ ret' = Ret(f.tool, "ok", f.name,
                        CASE f.tool = "create_quantum_circuit" -> f.args
                          [] f.tool = "create_variational_circuit" ->
                               [num_qubits |-> f.args.num_qubits,
                                num_layers |-> f.args.num_layers,
                                entanglement |-> f.args.entanglement,
                                parameters |-> NumParameters(circuit.data)]
                          [] OTHER -> [num_qubits |-> f.args.num_qubits,
                                       inverse |-> f.args.inverse,
                                       size |-> Size(circuit.data)])
    /\ UNCHANGED calls

\* A gate-addition tool is entered: the membership test and `circuit =
\* circuits[circuit_name]`, with applied_gates = [].
begin_gates(t, tool, circuit_name, gates) ==
    /\ Idle(t)
    /\ Enter
    /\ IF circuit_name \notin Keys(circuits)
         THEN /\ ret' = NotFound(tool, circuit_name)
              /\ UNCHANGED pending
         ELSE /\ pending' = Started(t, Frame(tool, "for", circuit_name, circuit_name, 1,
                                             circuits[circuit_name], NoRef,
                                             [gates |-> gates, i |-> 1,
                                              applied_gates |-> <<>>]))
              /\ UNCHANGED ret
    /\ UNCHANGED <<circuits, order, heap>>

\* `for gate in gates:` one iteration on the shared object, or the return after
\* the last one
for_gate(t) ==
    /\ At(t, "for")
    /\ LET f == pending[t]
           a == f.args
       IN IF a.i > Len(a.gates)
            THEN /\ ret' = Ret(f.tool, "ok", f.name, [applied |-> a.applied_gates])
                 /\ pending' = Finished(t)
                 /\ heap' = CollectLive(heap, circuits, Finished(t))
            ELSE LET r == IF f.tool = "add_gates"
                            THEN BasicGate(heap[f.ref], a.gates[a.i])
                            ELSE AdvancedGate(heap[f.ref], a.gates[a.i])
                 IN IF r.status = "applied"
                      THEN /\ heap' = [heap EXCEPT ![f.ref] = r.circuit]
                           /\ pending' = [pending EXCEPT ![t] =
                                [@ EXCEPT !.args = [a EXCEPT !.i = a.i + 1,
                                     !.applied_gates = Append(a.applied_gates, r.text)]]]
                           /\ UNCHANGED ret
                      ELSE /\ ret' = CASE r.status = "unsupported" ->
                                            Ret(f.tool, "unsupported", f.name,
                                                [gate_type |-> r.detail])
                                       [] f.tool = "add_gates" -> Fault(f.tool, r.detail)
                                       [] OTHER -> Error(f.tool, f.name, r.detail)
                           /\ pending' = Finished(t)
                           /\ heap' = CollectLive([heap EXCEPT ![f.ref] = r.circuit],
                                                  circuits, Finished(t))
    /\ UNCHANGED <<circuits, order, calls>>

\* optimize_circuit is entered: the two tests and `circuit = circuits[circuit_name]`
begin_optimize(t, circuit_name, optimization_level, short_uuid) ==
    /\ Idle(t)
    /\ Enter
    /\ IF circuit_name \notin Keys(circuits)
         THEN /\ ret' = NotFound("optimize_circuit", circuit_name)
              /\ UNCHANGED pending
       ELSE IF optimization_level \notin OptimizationLevels
         THEN /\ ret' = Ret("optimize_circuit", "invalid_level", "",
                            [message |-> "Optimization level must be 0, 1, 2, or 3"])
              /\ UNCHANGED pending
         ELSE /\ pending' = Started(t, Frame("optimize_circuit", "passes", circuit_name,
                                             circuit_name, 1, circuits[circuit_name], NoRef,
                                             [optimization_level |-> optimization_level,
                                              short_uuid |-> short_uuid]))
              /\ UNCHANGED ret
    /\ UNCHANGED <<circuits, order, heap>>

\* the copy, the pass manager's run or the transpilation: a new object
run_passes(t) ==
    /\ At(t, "passes")
    /\ LET f == pending[t]
           circuit == heap[f.ref]
           level == f.args.optimization_level
           new == NewRef(heap)
       IN \E optimized_circuit \in
               (CASE level = 0 -> {Copy(circuit)}
                  [] level \in {1, 2} -> PassOutputs(circuit)
                  [] OTHER -> TranspileOutputs(circuit)) :
            /\ heap' = Alloc(heap, new, optimized_circuit)
            /\ pending' = [pending EXCEPT ![t] =
                             [@ EXCEPT !.made = new, !.pc = "insert_optimized"]]
    /\ UNCHANGED <<circuits, order, ret, calls>>

\* circuits[optimized_name] = optimized_circuit, and the statistics, read from both
\* objects as they are now
insert_optimized(t) ==
    /\ At(t, "insert_optimized")
    /\ LET f == pending[t]
           circuit == heap[f.ref]
           optimized_circuit == heap[f.made]
           optimized_name == OptimizedName(f.name, f.args.optimization_level,
                                           f.args.short_uuid)
           d == SetItem(circuits, optimized_name, f.made)
       IN /\ circuits' = d
          /\ order' = SetItemOrder(circuits, order, optimized_name)
          /\ pending' = Finished(t)
          /\ heap' = CollectLive(heap, d, Finished(t))
          /\ ret' = Ret("optimize_circuit", "ok", f.name,
                        [optimized_circuit |-> optimized_name,
                         optimization_level |-> f.args.optimization_level,
                         original_size |-> Size(circuit.data),
                         optimized_size |-> Size(optimized_circuit.data),
                         size_reduction |->
                            Size(circuit.data) - Size(optimized_circuit.data),
                         original_depth |-> Depth(circuit),
                         optimized_depth |-> Depth(optimized_circuit),
                         depth_reduction |-> Depth(circuit) - Depth(optimized_circuit),
                         improvement_percentage |->
                            ImprovementPercentage(Size(circuit.data),
                                                  Size(optimized_circuit.data))])
    /\ UNCHANGED calls

\* what the overlapping calls are made with
ConcurrentName == "a"

ConcurrentBatches ==
    {<<G("h", <<0>>), G("cx", <<0, 1>>)>>, <<G("x", <<1>>), G("z", <<1>>)>>}

ConcurrentAdvancedBatches == {<<Gate("rz", <<0>>, None, <<1>>), G("swap", <<0, 1>>)>>}

ConcurrentNext ==
    \E t \in Threads :
       \/ begin_creation(t, "create_quantum_circuit", ConcurrentName,
                         [num_qubits |-> 2, num_classical_bits |-> 2])
       \/ begin_creation(t, "create_variational_circuit", ConcurrentName,
                         [num_qubits |-> 2, num_layers |-> 1, entanglement |-> "linear"])
       \/ begin_creation(t, "implement_qft", ConcurrentName,
                         [num_qubits |-> 2, inverse |-> FALSE])
       \/ while_name_in_circuits(t)
       \/ construct_circuit(t)
       \/ append_qft(t)
       \/ insert_circuit(t)
       \/ \E gates \in ConcurrentBatches : begin_gates(t, "add_gates", ConcurrentName, gates)
       \/ \E gates \in ConcurrentAdvancedBatches :
             begin_gates(t, "add_advanced_gates", ConcurrentName, gates)
       \/ for_gate(t)
       \/ \E level \in {0, 4} : begin_optimize(t, ConcurrentName, level, "0a0a0a0a")
       \/ run_passes(t)
       \/ insert_optimized(t)

ConcurrentSpec == Init /\ [][ConcurrentNext]_vars

\* The tools that make a second circuit out of a first, followed by gate batches on
\* either: circuits of two qubits named 'a', optimized at every level.
SharingBatches == {<<G("x", <<0>>), G("x", <<0>>)>>, <<G("h", <<1>>)>>}

SharingNext ==
    \/ \E short_uuid \in Uuid8 :
          Tick(MaxSharingCalls) /\ create_quantum_circuit(2, None, Some("a"), 1, short_uuid)
    \/ \E short_uuid \in Uuid8 :
          Tick(MaxSharingCalls) /\ implement_qft(2, FALSE, Some("a"), short_uuid)
    \/ \E circuit_name \in CircuitNames, optimization_level \in LevelChoices,
          short_uuid \in Uuid8 :
          /\ Tick(MaxSharingCalls)
          /\ optimize_circuit(circuit_name, optimization_level, short_uuid)
    \/ \E circuit_name \in CircuitNames, gates \in SharingBatches :
          Tick(MaxSharingCalls) /\ add_gates(circuit_name, gates)
    \/ \E circuit_name \in CircuitNames :
          Tick(MaxSharingCalls) /\ add_advanced_gates(circuit_name, <<G("s", <<0>>)>>)

SharingSpec == Init /\ [][SharingNext]_vars

(***************************************************************************)
(* Properties of the naming of circuits (checked under NamingSpec).        *)
(***************************************************************************)
\* the explicit names of the model
ExplicitNames == {n[1] : n \in NameChoices \ {None}}

\* C1: a creation tool (create_quantum_circuit, create_variational_circuit,
\* implement_qft) called with an explicit name N that creates its circuit registers it
\* under N when N is unused, and otherwise under N_k for the smallest k >= 1 with N_k
\* unused; the confirmation carries that resolved name, the resolved name is new to the
\* registry, and every name bound before keeps its object with its content untouched.
C1_ExplicitNameResolved ==
    [][\A N \in ExplicitNames :
         LET keys == Keys(circuits)
             Suffixed(k) == (N \o "_") \o ToString(k)
             smallest == CHOOSE k \in 1..(Cardinality(keys) + 1) :
                            /\ Suffixed(k) \notin keys
                            /\ \A j \in 1..(k - 1) : Suffixed(j) \in keys
             expected == IF N \notin keys THEN N ELSE Suffixed(smallest)
             created ==
                 \/ /\ ret'.tool = "create_quantum_circuit"
                    /\ \E num_qubits \in QubitChoices, num_classical_bits \in ClbitChoices,
                          timestamp \in Clock, short_uuid \in Uuid8 :
                          create_quantum_circuit(num_qubits, num_classical_bits, Some(N),
                                                 timestamp, short_uuid)
                 \/ /\ ret'.tool = "create_variational_circuit"
                    /\ \E num_qubits \in QubitChoices, num_layers \in LayerChoices,
                          entanglement \in EntanglementChoices,
                          timestamp \in Clock, short_uuid \in Uuid8 :
                          create_variational_circuit(num_qubits, num_layers, entanglement,
                                                     Some(N), timestamp, short_uuid)
                 \/ /\ ret'.tool = "implement_qft"
                    /\ \E num_qubits \in QubitChoices, inverse \in BOOLEAN,
                          short_uuid \in Uuid8 :
                          implement_qft(num_qubits, inverse, Some(N), short_uuid)
         IN (ret'.kind = "ok" /\ created)
               => /\ ret'.name = expected
                  /\ expected \notin keys
                  /\ Keys(circuits') = keys \cup {expected}
                  /\ order' = Append(order, expected)
                  /\ \A n \in keys : /\ circuits'[n] = circuits[n]
                                     /\ heap'[circuits'[n]] = heap[circuits[n]]
      ]_vars

\* C1's case: "a" and "a_1" are taken, and a creation under the name "a" has just been
\* registered as "a_2".
C1_Witness ==
    /\ ret.kind = "ok"
    /\ ret.tool \in {"create_quantum_circuit", "create_variational_circuit",
                     "implement_qft"}
    /\ ret.name = "a_2"
    /\ {"a", "a_1", "a_2"} \subseteq Keys(circuits)

\* C2: the name generated for a creation without an explicit name is never a name the
\* registry already holds, so such a creation never replaces an existing entry (and two
\* of them in succession get two distinct names).
C2_GeneratedNameIsFresh ==
    [][LET created ==
               \/ \E num_qubits \in QubitChoices, num_classical_bits \in ClbitChoices,
                     timestamp \in Clock, short_uuid \in Uuid8 :
                     create_quantum_circuit(num_qubits, num_classical_bits, None,
                                            timestamp, short_uuid)
               \/ \E num_qubits \in QubitChoices, num_layers \in LayerChoices,
                     entanglement \in EntanglementChoices,
                     timestamp \in Clock, short_uuid \in Uuid8 :
                     create_variational_circuit(num_qubits, num_layers, entanglement,
                                                None, timestamp, short_uuid)
               \/ \E num_qubits \in QubitChoices, inverse \in BOOLEAN,
                     short_uuid \in Uuid8 :
                     implement_qft(num_qubits, inverse, None, short_uuid)
       IN (ret'.kind = "ok" /\ created)
             => /\ ret'.name \notin Keys(circuits)
                /\ Keys(circuits') = Keys(circuits) \cup {ret'.name}
                /\ \A n \in Keys(circuits) : circuits'[n] = circuits[n]
      ]_vars

\* C3: a successful optimize_circuit(name, level) adds exactly one key to the registry,
\* name_opt<level>_<token>, which was not there before; the original circuit's
\* instructions are unchanged and every existing name keeps its binding.
C3_OptimizeAddsOneNewKey ==
    [][\A circuit_name \in Keys(circuits), optimization_level \in LevelChoices,
          short_uuid \in Uuid8 :
         (ret'.kind = "ok"
             /\ optimize_circuit(circuit_name, optimization_level, short_uuid))
           => LET new == (circuit_name \o "_opt")
                             \o (ToString(optimization_level) \o ("_" \o short_uuid))
              IN /\ ret'.out.optimized_circuit = new
                 /\ new \notin Keys(circuits)
                 /\ Keys(circuits') = Keys(circuits) \cup {new}
                 /\ Cardinality(Keys(circuits')) = Cardinality(Keys(circuits)) + 1
                 /\ heap'[circuits'[circuit_name]].data = Circuit(circuit_name).data
                 /\ \A n \in Keys(circuits) : circuits'[n] = circuits[n]
      ]_vars

(***************************************************************************)
(* Properties of the tools' answers to bad input.                          *)
(***************************************************************************)
\* C4: each of the nine tools that take a circuit name, called with a name the registry
\* does not hold, returns the not-found message for that name, raises nothing, and
\* leaves the registry and every circuit as they were.
C4_AbsentNameNotFound ==
    [][\A circuit_name \in LookupChoices \ Keys(circuits) :
         LET called ==
               \/ \E gates \in BasicBatches : add_gates(circuit_name, gates)
               \/ \E gates \in AdvancedBatches : add_advanced_gates(circuit_name, gates)
               \/ \E shots \in ShotChoices : run_circuit(circuit_name, shots)
               \/ get_circuit_info(circuit_name)
               \/ visualize_circuit(circuit_name)
               \/ visualize_circuit_mermaid(circuit_name)
               \/ analyze_statevector(circuit_name)
               \/ compute_density_matrix(circuit_name)
               \/ \E optimization_level \in LevelChoices, short_uuid \in Uuid8 :
                     optimize_circuit(circuit_name, optimization_level, short_uuid)
         IN called => /\ ret'.kind = "not_found"
                      /\ ret'.name = circuit_name
                      /\ UNCHANGED <<circuits, order, heap>>
      ]_vars

\* C4's case: the registry holds a circuit, and visualize_circuit has just been asked
\* for a name it does not hold.
C4_Witness ==
    /\ ret.tool = "visualize_circuit"
    /\ ret.kind = "not_found"
    /\ ret.name \notin Keys(circuits)
    /\ Keys(circuits) # {}

\* C5: when add_gates or add_advanced_gates reaches a gate of an unrecognized kind at
\* position i of its batch, the call returns the message naming that kind (lower-cased,
\* as the tool reads it); the circuit holds what the gates before position i appended,
\* and nothing of the gates from position i on.
C5_UnsupportedStopsBatch ==
    [][\A circuit_name \in Keys(circuits) :
         /\ \A gates \in BasicBatches : \A i \in 1..Len(gates) :
              LET before == AddGatesLoop(Circuit(circuit_name), SubSeq(gates, 1, i - 1),
                                         1, <<>>)
              IN (/\ add_gates(circuit_name, gates)
                  /\ before.outcome = "ok"
                  /\ Lower(gates[i].type) \notin
                        {"h", "x", "y", "z", "cx", "measure", "measure_all"})
                    => /\ ret'.kind = "unsupported"
                       /\ ret'.out.gate_type = Lower(gates[i].type)
                       /\ heap'[circuits[circuit_name]] = before.circuit
                       /\ UNCHANGED <<circuits, order>>
         /\ \A gates \in AdvancedBatches : \A i \in 1..Len(gates) :
              LET before == AddAdvancedGatesLoop(Circuit(circuit_name),
                                                 SubSeq(gates, 1, i - 1), 1, <<>>)
              IN (/\ add_advanced_gates(circuit_name, gates)
                  /\ before.outcome = "ok"
                  /\ Lower(gates[i].type) \notin
                        {"rx", "ry", "rz", "rxx", "ryy", "rzz", "u", "swap",
                         "s", "t", "sdg", "tdg"})
                    => /\ ret'.kind = "unsupported"
                       /\ ret'.out.gate_type = Lower(gates[i].type)
                       /\ heap'[circuits[circuit_name]] = before.circuit
                       /\ UNCHANGED <<circuits, order>>
      ]_vars

\* C5's case: the batch H, Foo, X has just been given to add_gates on an empty circuit:
\* "foo" is reported, the H is in the circuit and the X is not.
C5_Witness ==
    /\ ret.tool = "add_gates"
    /\ ret.kind = "unsupported"
    /\ ret.out.gate_type = "foo"
    /\ ret.name \in Keys(circuits)
    /\ Circuit(ret.name).data = <<Instruction("h", <<0>>, <<>>, <<>>)>>

C7_BadQubitReported ==
    [][\A circuit_name \in Keys(circuits) :
         LET n == Circuit(circuit_name).num_qubits
             arity(kind) == IF kind \in {"cx", "rxx", "ryy", "rzz", "swap"} THEN 2
                            ELSE IF kind = "measure_all" THEN 0 ELSE 1
             bad(gate) ==
                 \/ Len(gate.qubits) < arity(Lower(gate.type))
                 \/ \E i \in 1..arity(Lower(gate.type)) :
                       gate.qubits[i] < 0 \/ gate.qubits[i] >= n
         IN /\ \A gates \in BasicBatches : \A i \in 1..Len(gates) :
                 (/\ add_gates(circuit_name, gates)
                  /\ AddGatesLoop(Circuit(circuit_name), SubSeq(gates, 1, i - 1),
                                  1, <<>>).outcome = "ok"
                  /\ Lower(gates[i].type) \in
                        {"h", "x", "y", "z", "cx", "measure", "measure_all"}
                  /\ bad(gates[i]))
                    => ret'.kind = "error"
            /\ \A gates \in AdvancedBatches : \A i \in 1..Len(gates) :
                 (/\ add_advanced_gates(circuit_name, gates)
                  /\ AddAdvancedGatesLoop(Circuit(circuit_name), SubSeq(gates, 1, i - 1),
                                          1, <<>>).outcome = "ok"
                  /\ Lower(gates[i].type) \in
                        {"rx", "ry", "rz", "rxx", "ryy", "rzz", "u", "swap",
                         "s", "t", "sdg", "tdg"}
                  /\ bad(gates[i]))
                    => ret'.kind = "error"
      ]_vars

(***************************************************************************)
(* Properties of every tool (checked under Spec).                          *)
(***************************************************************************)
\* C8: no exception leaves a tool: whatever the tool and its input, a failure of a
\* delegate call comes back as a returned message, and that message carries the name
\* of the circuit (and the cause).
C8_NoFaultLeavesATool ==
    /\ ret.kind # "fault"
    /\ ret.kind = "error" => ret.name # ""

\* C9: optimize_circuit on a circuit the registry holds, with a level outside
\* {0, 1, 2, 3}, returns the validation message and leaves the registry, the order of
\* its names and every circuit as they were.
C9_InvalidLevelRejected ==
    [][\A circuit_name \in Keys(circuits), short_uuid \in Uuid8 :
         \A optimization_level \in LevelChoices \ {0, 1, 2, 3} :
            optimize_circuit(circuit_name, optimization_level, short_uuid)
              => /\ ret'.kind = "invalid_level"
                 /\ UNCHANGED <<circuits, order, heap>>
      ]_vars

\* C9's case: the registry holds a circuit and optimize_circuit has just turned a level
\* down.
C9_Witness ==
    /\ ret.tool = "optimize_circuit"
    /\ ret.kind = "invalid_level"
    /\ Keys(circuits) # {}

\* C10: a circuit of two qubits created with the default arguments, given H on qubit 0,
\* CNOT(0, 1) and measure_all through add_gates and run for 1000 shots, reports counts
\* whose only keys are "00" and "11" and whose total is 1000.
C10_BellCounts ==
    [][\A circuit_name \in Keys(circuits) :
         (/\ run_circuit(circuit_name, DefaultShots)
          /\ Circuit(circuit_name) =
                AddGatesLoop(QuantumCircuit(2, 2),
                             <<G("h", <<0>>), G("cx", <<0, 1>>), G("measure_all", <<>>)>>,
                             1, <<>>).circuit)
           => /\ ret'.kind = "ok"
              /\ DOMAIN ret'.out.results \subseteq {"00", "11"}
              /\ ret'.out.total_counts = 1000
      ]_vars

(***************************************************************************)
(* Properties of what the tools report.                                    *)
(***************************************************************************)
\* C11: for every registered circuit and every positive shot count, run_circuit returns
\* the requested shot count as 'shots', and a 'total_counts' that is both the sum of the
\* returned counts and the requested shot count (stated for the calls that return a
\* result at all).
C11_TotalCountsIsShots ==
    [][\A circuit_name \in Keys(circuits), shots \in ShotChoices :
         (ret'.kind = "ok" /\ run_circuit(circuit_name, shots))
           => /\ ret'.out.shots = shots
              /\ ret'.out.total_counts = SumValues(ret'.out.results,
                                                   DOMAIN ret'.out.results)
              /\ ret'.out.total_counts = shots
      ]_vars

C13_LevelZeroIsACopy ==
    [][\A circuit_name \in Keys(circuits), short_uuid \in Uuid8 :
         (/\ ret'.kind = "ok"
          /\ ret'.tool = "optimize_circuit"
          /\ optimize_circuit(circuit_name, 0, short_uuid))
           => LET original == Circuit(circuit_name)
                  new == ret'.out.optimized_circuit
                  copy == heap'[circuits'[new]]
              IN /\ new \in Keys(circuits')
                 /\ circuits'[new] # circuits'[circuit_name]
                 /\ copy.num_qubits = original.num_qubits
                 /\ copy.cregs = original.cregs
                 /\ NumClbits(copy) = NumClbits(original)
                 /\ copy.data = original.data
                 /\ ret'.out.size_reduction = 0
                 /\ ret'.out.depth_reduction = 0
                 /\ ret'.out.improvement_percentage = 0
      ]_vars

\* C13's case: a circuit holding two instructions and two classical bits has just been
\* optimized at level 0.
C13_Witness ==
    /\ ret.tool = "optimize_circuit"
    /\ ret.kind = "ok"
    /\ ret.out.optimization_level = 0
    /\ ret.out.original_size = 2
    /\ ret.out.optimized_circuit \in Keys(circuits)
    /\ NumClbits(Circuit(ret.out.optimized_circuit)) = 2
    /\ Len(Circuit(ret.out.optimized_circuit).data) = 2

\* C14: in every registry state, the empty one included, list_circuits returns a JSON
\* mapping from name to summary with exactly one entry per registered name, in
\* registration order, each summary giving the circuit's qubit count, classical-bit
\* count and current instruction count (the length of its instruction list).
C14_ListIsExactSnapshot ==
    [][list_circuits
         => LET out == ret'.out
            IN /\ ret'.kind = "ok"
               /\ "circuit_list" \in DOMAIN out
               /\ DOMAIN out.circuit_list = Keys(circuits)
               /\ out.names = order
               /\ \A n \in Keys(circuits) :
                    /\ out.circuit_list[n].qubits = Circuit(n).num_qubits
                    /\ out.circuit_list[n].classical_bits = NumClbits(Circuit(n))
                    /\ out.circuit_list[n].gates = Len(Circuit(n).data)
      ]_vars

(***************************************************************************)
(* Properties of the state analyses (checked under GatesSpec).             *)
(***************************************************************************)
\* C15: analyze_statevector and compute_density_matrix strip the final measurements
\* from a working copy only: after either call, whether it returns its analysis or an
\* error, the registered circuit's instruction list (its trailing measurements
\* included) and its classical bits are exactly as before the call.
C15_AnalysesLeaveCircuitAlone ==
    [][\A circuit_name \in Keys(circuits) :
         (analyze_statevector(circuit_name) \/ compute_density_matrix(circuit_name))
           => /\ ret'.kind \in {"ok", "error"}
              /\ circuits' = circuits
              /\ heap'[circuits[circuit_name]].data = Circuit(circuit_name).data
              /\ heap'[circuits[circuit_name]].cregs = Circuit(circuit_name).cregs
              /\ NumClbits(heap'[circuits[circuit_name]]) = NumClbits(Circuit(circuit_name))
              /\ heap' = heap
      ]_vars

\* C15's case: analyze_statevector has just returned its analysis of a circuit that
\* ends with measurements, and the measurements are still in the registered circuit.
C15_Witness ==
    /\ ret.tool = "analyze_statevector"
    /\ ret.kind = "ok"
    /\ ret.name \in Keys(circuits)
    /\ LET data == Circuit(ret.name).data
       IN /\ Len(data) = 5
          /\ data[Len(data)].name = "measure"
          /\ RemoveFinalMeasurements(Circuit(ret.name)).data # data

(***************************************************************************)
(* Properties of the creation tools.                                       *)
(***************************************************************************)
\* C16: create_variational_circuit accepts exactly the entanglement choices full,
\* linear and circular: with any other value the call returns an error and adds no
\* circuit to the registry.
C16_EntanglementIsClosed ==
    [][\A num_qubits \in {n \in QubitChoices : n > 0}, num_layers \in LayerChoices,
          entanglement \in EntanglementChoices, name \in NameChoices,
          timestamp \in Clock, short_uuid \in Uuid8 :
         (/\ ret'.tool = "create_variational_circuit"
          /\ create_variational_circuit(num_qubits, num_layers, entanglement, name,
                                        timestamp, short_uuid))
           => IF entanglement \in {"full", "linear", "circular"}
                THEN ret'.kind = "ok"
                ELSE /\ ret'.kind = "error"
                     /\ UNCHANGED <<circuits, order, heap>>
      ]_vars

(***************************************************************************)
(* Properties of the registry over a whole run.                            *)
(***************************************************************************)
\* C20: the registry is create-only: with every tool call the set of registered names
\* only grows, and a name once registered stays bound to the same circuit object, whose
\* instruction list only grows at its end (nothing is deleted, replaced or truncated).
C20_CreateOnly ==
    [][/\ Keys(circuits) \subseteq Keys(circuits')
       /\ \A n \in Keys(circuits) :
            /\ circuits'[n] = circuits[n]
            /\ LET old == heap[circuits[n]].data
                   new == heap'[circuits'[n]].data
               IN Len(old) <= Len(new) /\ SubSeq(new, 1, Len(old)) = old
      ]_vars

(***************************************************************************)
(* Properties of overlapping calls (checked under ConcurrentSpec).         *)
(***************************************************************************)
CreationTools == {"create_quantum_circuit", "create_variational_circuit", "implement_qft"}

\* C17: creation is serialized with its name resolution: when creation calls with the
\* same requested name overlap, interleaved at the membership test and the insertion,
\* no two of them leave the suffix loop with the same resolved name, and an insertion
\* never binds a name that is already bound (no created circuit is lost by overwriting).
C17_CreationsSerialized ==
    [][\A t \in Threads :
         (At(t, "insert") /\ insert_circuit(t))
           => /\ pending[t].name \notin Keys(circuits)
              /\ \A u \in Threads \ {t} :
                   (u \in DOMAIN pending /\ pending[u].tool \in CreationTools
                      /\ pending[u].pc # "while")
                     => pending[u].name # pending[t].name
      ]_vars

\* the entries a batch appends when it runs alone on an empty circuit of two qubits
BatchEntries(tool, gates) ==
    IF tool = "add_gates"
      THEN AddGatesLoop(QuantumCircuit(2, 2), gates, 1, <<>>).circuit.data
      ELSE AddAdvancedGatesLoop(QuantumCircuit(2, 2), gates, 1, <<>>).circuit.data

\* data[from .. from + Len(block) - 1] = block
BlockAt(data, from, block) ==
    /\ from + Len(block) - 1 <= Len(data)
    /\ \A k \in 1..Len(block) : data[from + k - 1] = block[k]

\* C18: gate-addition calls on one circuit are serialized: when a batch returns having
\* applied all its gates, its entries stand in the circuit's operation sequence as one
\* unbroken block (no entry of another batch in between, none of its own lost).
C18_BatchesNotInterleaved ==
    [][\A t \in Threads :
         (At(t, "for") /\ pending[t].args.i > Len(pending[t].args.gates) /\ for_gate(t))
           => \E from \in 1..(Len(heap[pending[t].ref].data) + 1) :
                 BlockAt(heap[pending[t].ref].data, from,
                         BatchEntries(pending[t].tool, pending[t].args.gates))
      ]_vars

\* the positions at which a call is still building the object it will register
Building == {"construct", "append", "passes"}

\* C19: no call can observe a partly built circuit. In every state the registry binds
\* no object that a call in flight is still building; and the step that binds a name
\* binds a finished object: for implement_qft the circuit with its transform gate
\* appended, for create_variational_circuit the whole ansatz, for
\* create_quantum_circuit the empty circuit of the requested widths, for
\* optimize_circuit the object its passes returned, untouched since.
C19_OnlyCompleteCircuitsBound ==
    /\ [](\A t \in DOMAIN pending :
            /\ pending[t].pc \in Building => pending[t].made \notin Refs(circuits)
            /\ pending[t].made # NoRef
                 => \A u \in (DOMAIN pending) \ {t} :
                       pending[u].made # pending[t].made /\ pending[u].ref # pending[t].made)
    /\ [][\A t \in Threads :
            /\ (At(t, "insert") /\ insert_circuit(t))
                 => LET f == pending[t]
                        bound == heap'[circuits'[f.name]]
                    IN CASE f.tool = "implement_qft" ->
                              bound = QftCircuit(f.args.num_qubits, f.args.inverse).circuit
                         [] f.tool = "create_variational_circuit" ->
                              bound = EfficientSU2(f.args.num_qubits, f.args.num_layers,
                                                   f.args.entanglement).circuit
                         [] OTHER ->
                              bound = QuantumCircuit(f.args.num_qubits,
                                                     f.args.num_classical_bits)
            /\ (At(t, "insert_optimized") /\ insert_optimized(t))
                 => LET f == pending[t]
                        optimized_name == OptimizedName(f.name, f.args.optimization_level,
                                                        f.args.short_uuid)
                    IN /\ circuits'[optimized_name] = f.made
                       /\ heap'[f.made] = heap[f.made]
                       /\ heap[f.made].num_qubits = heap[f.ref].num_qubits
       ]_vars

\* a QFT circuit has just been bound, with its gate, while another call is still
\* building an object that the registry does not show
C19_Witness ==
    /\ ret.tool = "implement_qft" /\ ret.kind = "ok"
    /\ ret.name \in Keys(circuits)
    /\ Len(heap[circuits[ret.name]].data) = 1
    /\ \E t \in DOMAIN pending :
          /\ pending[t].pc = "append"
          /\ pending[t].made \notin Refs(circuits)

(***************************************************************************)
(* Properties of the registered circuits (checked under GatesSpec).        *)
(***************************************************************************)
\* C21: a registered circuit is over a fixed number of qubits and classical bits: a
\* call of add_gates or add_advanced_gates (measure and measure_all included) leaves the
\* qubit count and the classical-bit count of every circuit as they were.
C21_WidthsAreFixed ==
    [][\A circuit_name \in Keys(circuits) :
         (ret'.tool \in {"add_gates", "add_advanced_gates"}
            /\ circuit_name \in Keys(circuits'))
           => /\ heap'[circuits'[circuit_name]].num_qubits = Circuit(circuit_name).num_qubits
              /\ NumClbits(heap'[circuits'[circuit_name]]) = NumClbits(Circuit(circuit_name))
      ]_vars

(***************************************************************************)
(* Properties of the objects behind the names (checked under SharingSpec). *)
(***************************************************************************)
\* C22: no two names of the registry ever refer to the same circuit object, whatever
\* creations and optimizations (at any level) came before; and a batch of gates added
\* through one name changes the qubit count, the registers and the instruction list
\* seen through no other name.
C22_NoSharedObject ==
    /\ [](\A n, m \in Keys(circuits) : n # m => circuits[n] # circuits[m])
    /\ [][\A n \in Keys(circuits) :
            (ret'.tool \in {"add_gates", "add_advanced_gates"} /\ ret'.name # n)
              => (n \in Keys(circuits') /\ heap'[circuits'[n]] = Circuit(n))
       ]_vars

\* gates were added through 'a' after 'a' was copied at level 0: the copy is still
\* empty
C22_Witness ==
    /\ ret.tool = "add_gates" /\ ret.kind = "ok" /\ ret.name = "a"
    /\ "a_opt0_0a0a0a0a" \in Keys(circuits)
    /\ Len(Circuit("a").data) > 0
    /\ Circuit("a_opt0_0a0a0a0a").data = <<>>

(***************************************************************************)
(* Properties of a batch the delegate stops (checked under GatesSpec).     *)
(***************************************************************************)
\* the instructions the gates at positions 1..n of a batch append to a circuit
AfterPrefix(tool, circuit, gates, n) ==
    IF tool = "add_gates"
      THEN AddGatesLoop(circuit, SubSeq(gates, 1, n), 1, <<>>)
      ELSE AddAdvancedGatesLoop(circuit, SubSeq(gates, 1, n), 1, <<>>)

\* the delegate's answer to one gate
OneGate(tool, circuit, gate) ==
    IF tool = "add_gates" THEN BasicGate(circuit, gate) ELSE AdvancedGate(circuit, gate)

\* C23: a batch is not transactional when the delegate fails: if add_gates or
\* add_advanced_gates stops because the delegate rejects the gate at position i
\* (1-based here), the circuit afterwards is the circuit before with exactly what the
\* gates at positions 1..i-1 append, and nothing for position i or any later one.
C23_PrefixStaysApplied ==
    [][\A circuit_name \in Keys(circuits), tool \in {"add_gates", "add_advanced_gates"},
          gates \in BasicBatches \cup AdvancedBatches :
         (/\ ret'.kind \in {"fault", "error"}
          /\ ret'.tool = tool
          /\ IF tool = "add_gates" THEN add_gates(circuit_name, gates)
                                   ELSE add_advanced_gates(circuit_name, gates))
           => \E i \in 1..Len(gates) :
                 LET before == AfterPrefix(tool, Circuit(circuit_name), gates, i - 1)
                 IN /\ before.outcome = "ok"
                    /\ OneGate(tool, before.circuit, gates[i]).status = "raise"
                    /\ heap'[circuits'[circuit_name]] = before.circuit
                    /\ SubSeq(before.circuit.data, 1, Len(Circuit(circuit_name).data))
                          = Circuit(circuit_name).data
      ]_vars

\* add_gates was stopped by the delegate at its second gate (a qubit out of range):
\* the first gate of the batch is in the circuit
C23_Witness ==
    /\ ret.tool = "add_gates" /\ ret.kind = "fault"
    /\ "a" \in Keys(circuits)
    /\ Circuit("a").num_qubits = 2
    /\ Circuit("a").data = <<Instruction("z", <<1>>, <<>>, <<>>)>>

(***************************************************************************)
(* Properties of the flowchart (checked under GatesSpec).  They read the   *)
(* lines the tool returned against the circuit the lines were made from.   *)
(***************************************************************************)
\* the tool has just returned a flowchart
DiagramReturned == ret.tool = "visualize_circuit_mermaid" /\ ret.kind = "ok"

\* the positions of the lines of one kind, in the order of the list
RECURSIVE LinesOfKind(_, _, _)
LinesOfKind(lines, kind, i) ==
    IF i > Len(lines) THEN <<>>
    ELSE (IF lines[i].kind = kind THEN <<lines[i]>> ELSE <<>>) \o LinesOfKind(lines, kind, i + 1)

DeclaredNodes(lines) == LinesOfKind(lines, "node", 1)

Edges(lines) == LinesOfKind(lines, "edge", 1)

\* the positions (1-based) of the instructions that touch qubit q, in order
RECURSIVE Touching(_, _, _)
Touching(data, q, i) ==
    IF i > Len(data) THEN <<>>
    ELSE (IF \E k \in 1..Len(data[i].qubits) : data[i].qubits[k] = q THEN <<i>> ELSE <<>>)
            \o Touching(data, q, i + 1)

\* C24: the flowchart is an order-preserving fold over the qubit wires. Whenever the
\* tool returns a flowchart for a circuit of n qubits, c classical bits and m
\* instructions: the declared nodes are the n + c start nodes, one node per
\* instruction in the order of the instructions, and the n final nodes, all with
\* different ids; the edges that end at the node of an instruction are one per qubit
\* it touches, each from the node of the instruction that touched that qubit last (the
\* qubit's start node when none did); and so for every qubit i the instructions that
\* touch i, taken in order, are linked by edges Qi_start -> first -> ... -> last ->
\* Qi_final (an edge Qi_start -> Qi_final when none touches i), Qi_final having that
\* one incoming edge.
C24_QubitWiresAreChains ==
    DiagramReturned =>
      LET circuit == Circuit(ret.name)
          data    == circuit.data
          n       == circuit.num_qubits
          c       == NumClbits(circuit)
          nodes   == DeclaredNodes(ret.out.lines)
          edges   == Edges(ret.out.lines)
          OpNode(k) == nodes[n + c + k].id
      IN /\ Len(nodes) = n + c + Len(data) + n
         /\ \A a, b \in 1..Len(nodes) : a # b => nodes[a].id # nodes[b].id
         /\ \A k \in 1..Len(data) :
               /\ Cardinality({e \in 1..Len(edges) : edges[e].to = OpNode(k)})
                     = Len(data[k].qubits)
               /\ \A j \in 1..Len(data[k].qubits) :
                     LET Prev(q) == LET ops == Touching(SubSeq(data, 1, k - 1), q, 1)
                                    IN IF ops = <<>> THEN ("Q" \o ToString(q)) \o "_start"
                                       ELSE OpNode(ops[Len(ops)])
                         prev == Prev(data[k].qubits[j])
                     IN Cardinality({e \in 1..Len(edges) :
                                        edges[e].from = prev /\ edges[e].to = OpNode(k)})
                          = Cardinality({i \in 1..Len(data[k].qubits) :
                                           Prev(data[k].qubits[i]) = prev})
         /\ \A i \in 0..(n - 1) :
               LET ops   == Touching(data, i, 1)
                   start == ("Q" \o ToString(i)) \o "_start"
                   final == ("Q" \o ToString(i)) \o "_final"
                   chain == (<<start>> \o [k \in 1..Len(ops) |-> OpNode(ops[k])])
                               \o <<final>>
               IN /\ \E a \in 1..(n + c) : nodes[a].id = start
                  /\ \E a \in 1..Len(nodes) : nodes[a].id = final
                  /\ \A k \in 1..(Len(chain) - 1) :
                        \E e \in 1..Len(edges) :
                           edges[e].from = chain[k] /\ edges[e].to = chain[k + 1]
                  /\ Cardinality({e \in 1..Len(edges) : edges[e].to = final}) = 1

\* a flowchart of H on qubit 0, CNOT 0 -> 1, a barrier and two measurements: qubit 1
\* is chained through the CNOT, the barrier and its measurement
C24_Witness ==
    /\ DiagramReturned
    /\ Len(Circuit(ret.name).data) = 5
    /\ Circuit(ret.name).data[2].name = "cx"
    /\ \E e \in 1..Len(ret.out.lines) :
          ret.out.lines[e] = EdgeLine("Q1_start", "CNOT2")
    /\ \E e \in 1..Len(ret.out.lines) :
          ret.out.lines[e] = EdgeLine("M5", "Q1_final")

\* the positions (1-based) of the instructions that touch classical bit c, in order
RECURSIVE TouchingClbit(_, _, _)
TouchingClbit(data, c, i) ==
    IF i > Len(data) THEN <<>>
    ELSE (IF \E k \in 1..Len(data[i].clbits) : data[i].clbits[k] = c THEN <<i>> ELSE <<>>)
            \o TouchingClbit(data, c, i + 1)

\* C25: the flowchart keeps a current node per classical bit as it does per qubit:
\* the node of an instruction that touches classical bit c has an incoming edge from
\* the node of the instruction that touched c last, and from Cc_start when none did,
\* so that each classical wire is a chain that starts at Cc_start.
C25_ClassicalWiresAreChains ==
    DiagramReturned =>
      LET circuit == Circuit(ret.name)
          data    == circuit.data
          nodes   == DeclaredNodes(ret.out.lines)
          edges   == Edges(ret.out.lines)
          OpNode(k) == nodes[circuit.num_qubits + NumClbits(circuit) + k].id
      IN \A c \in 0..(NumClbits(circuit) - 1) :
            LET ops   == TouchingClbit(data, c, 1)
                chain == <<("C" \o ToString(c)) \o "_start">>
                            \o [k \in 1..Len(ops) |-> OpNode(ops[k])]
            IN \A k \in 1..(Len(chain) - 1) :
                  \E e \in 1..Len(edges) :
                     edges[e].from = chain[k] /\ edges[e].to = chain[k + 1]

\* the position of the first line that declares the id or names it as an end of an edge
FirstMention(lines, id) ==
    CHOOSE p \in 1..Len(lines) :
       /\ \/ lines[p].kind = "node" /\ lines[p].id = id
          \/ lines[p].kind = "edge" /\ (lines[p].from = id \/ lines[p].to = id)
       /\ \A o \in 1..(p - 1) :
             ~ \/ lines[o].kind = "node" /\ lines[o].id = id
               \/ lines[o].kind = "edge" /\ (lines[o].from = id \/ lines[o].to = id)

\* C26: the node/edge list of every flowchart the tool returns is a directed acyclic
\* graph: the source of every edge is a node declared before the edge, and it enters
\* the list before the edge's target does, so the order of the list is a topological
\* order and no cycle exists; and the call that makes the flowchart changes neither the
\* registry nor any circuit.
C26_DiagramIsAcyclic ==
    /\ [](DiagramReturned =>
            LET lines == ret.out.lines
            IN \A p \in 1..Len(lines) :
                  lines[p].kind = "edge"
                    => /\ lines[p].from # lines[p].to
                       /\ lines[FirstMention(lines, lines[p].from)].kind = "node"
                       /\ FirstMention(lines, lines[p].from) < p
                       /\ FirstMention(lines, lines[p].from)
                             < FirstMention(lines, lines[p].to))
    /\ [][ret'.tool = "visualize_circuit_mermaid"
            => circuits' = circuits /\ order' = order /\ heap' = heap]_vars

\* a flowchart with a two-qubit rotation fed from a one-qubit rotation and from the
\* start of the other qubit
C26_Witness ==
    /\ DiagramReturned
    /\ \E p \in 1..Len(ret.out.lines) : ret.out.lines[p] = EdgeLine("RX1", "RZZ2")
    /\ \E p \in 1..Len(ret.out.lines) : ret.out.lines[p] = EdgeLine("Q1_start", "RZZ2")

\* the label of a node that names the gate kind and nothing else
KindOnlyLabels(inst) ==
    CASE inst.name = "cx" -> {"CNOT Gate"}
      [] inst.name = "measure" -> {"Measure"}
      [] OTHER -> {NameUpper(inst.name) \o " Gate"}

\* C27: in every flowchart the tool returns, the node of a parametrized gate added
\* through add_advanced_gates carries the gate kind with its rounded parameter value(s)
\* (one angle for rx, ry, rz, rxx, ryy, rzz; three for u), and the node of any other
\* instruction carries the gate kind only.
C27_ParametersInLabels ==
    DiagramReturned =>
      LET circuit == Circuit(ret.name)
          data    == circuit.data
          nodes   == DeclaredNodes(ret.out.lines)
          Label(k) == nodes[circuit.num_qubits + NumClbits(circuit) + k].label
      IN \A k \in 1..Len(data) :
            CASE data[k].name \in {"rx", "ry", "rz", "rxx", "ryy", "rzz"} ->
                   Label(k) = (NameUpper(data[k].name) \o "(")
                                 \o (Format3(data[k].params[1]) \o ")")
              [] data[k].name = "u" -> Label(k) \notin KindOnlyLabels(data[k])
              [] OTHER -> Label(k) \in KindOnlyLabels(data[k])

\* C28: in every flowchart the tool returns, both ends of every edge are ids of nodes
\* the list declares (start nodes, instruction nodes, final nodes); the edge of a
\* measurement to its classical bit ends at a declared node too.
C28_EdgesJoinDeclaredNodes ==
    DiagramReturned =>
      LET nodes == DeclaredNodes(ret.out.lines)
          edges == Edges(ret.out.lines)
          ids   == {nodes[a].id : a \in 1..Len(nodes)}
      IN \A e \in 1..Len(edges) : edges[e].from \in ids /\ edges[e].to \in ids

(***************************************************************************)
(* Properties of the tools that only read (checked under GatesSpec).       *)
(***************************************************************************)
ReadOnlyTools ==
    {"get_circuit_info", "visualize_circuit", "visualize_circuit_mermaid", "list_circuits",
     "run_circuit", "analyze_statevector", "compute_density_matrix"}

\* C29: get_circuit_info, visualize_circuit, visualize_circuit_mermaid, list_circuits,
\* run_circuit, analyze_statevector and compute_density_matrix leave the registry as it
\* was, whatever they are called with and however they end: the same names in the same
\* order, and behind every name the same qubit count, classical registers and
\* instruction list.
C29_ReadersChangeNothing ==
    [][ret'.tool \in ReadOnlyTools
         => /\ Keys(circuits') = Keys(circuits)
            /\ order' = order
            /\ \A n \in Keys(circuits) :
                  /\ heap'[circuits'[n]].num_qubits = Circuit(n).num_qubits
                  /\ heap'[circuits'[n]].cregs = Circuit(n).cregs
                  /\ heap'[circuits'[n]].data = Circuit(n).data
      ]_vars

\* the density matrix of a circuit that ends in measurements was computed, and the
\* measurements are still in the registered circuit
C29_Witness ==
    /\ ret.tool = "compute_density_matrix" /\ ret.kind = "ok"
    /\ ret.name \in Keys(circuits)
    /\ Len(Circuit(ret.name).data) = 5
    /\ Circuit(ret.name).data[5].name = "measure"

(***************************************************************************)
(* Properties of the suffix loop (checked under NamingSpec).               *)
(***************************************************************************)
\* C30: the suffix loop terminates: for every registry reached and every requested
\* name, the loop of create_quantum_circuit, create_variational_circuit and
\* implement_qft makes at most (number of registered names + 1) membership tests; the
\* counter is 1 at the first test and one more at each next test; the names tested
\* are all different, all registered but the last; and the last one is the name the
\* tool registers.
C30_SuffixLoopTerminates ==
    [][\A N \in ExplicitNames :
         LET keys  == Keys(circuits)
             tests == SuffixTests(N, N, 1, keys)
             last  == tests[Len(tests)].name
         IN /\ Len(tests) <= Cardinality(keys) + 1
            /\ \A k \in 1..Len(tests) : tests[k].counter = k
            /\ \A j, k \in 1..Len(tests) : j # k => tests[j].name # tests[k].name
            /\ \A k \in 1..(Len(tests) - 1) : tests[k].name \in keys
            /\ last \notin keys
            /\ \A short_uuid \in Uuid8 :
                  (/\ ret'.kind = "ok"
                   /\ ret'.tool \in CreationTools
                   /\ \/ create_quantum_circuit(2, None, Some(N), 1, short_uuid)
                      \/ create_variational_circuit(2, 1, "full", Some(N), 1, short_uuid)
                      \/ implement_qft(2, FALSE, Some(N), short_uuid))
                    => ret'.name = last
      ]_vars

\* 'a' was requested while 'a' and 'a_1' were registered: three tests, and the
\* circuit is registered as 'a_2'
C30_Witness ==
    /\ ret.kind = "ok" /\ ret.tool \in CreationTools
    /\ ret.name = "a_2"
    /\ {"a", "a_1", "a_2"} \subseteq Keys(circuits)

====
